---------------------------- MODULE Spec2Model ----------------------------
(***************************************************************************)
(* A model of the telephony <-> voice-backend relay handlers of the        *)
(* repository:                                                             *)
(*   - src/app.py, src/bidirectional.py : media_stream (realtime-model     *)
(*     relay with a local stream_sid), handler "app";                      *)
(*   - src/ElevenLabs/main.py : media_stream (realtime-model relay on top  *)
(*     of TwilioAudioInterface), handler "openai";                         *)
(*   - src/ElevenLabs/main.py : handle_media_stream (conversational-agent  *)
(*     SDK on top of TwilioAudioInterface), handler "eleven";              *)
(*   - src/ElevenLabs/twilio_service.py : TwilioAudioInterface.            *)
(* One call session is modelled.  Coroutines are split at their awaits.    *)
(***************************************************************************)
EXTENDS Integers, Sequences, FiniteSets, TLC

(***************************************************************************)
(* Bounds of the model (inputs the environment may produce).               *)
(***************************************************************************)
\* telephony media events per session
MaxMedia == 1
\* audio chunks the backend produces per session
MaxDeltas == 2
\* longest Pending-Audio Queue drawn for the mixer specification
MaxQueue == 2
MaxChunk == 8    \* longest chunk asked of _get_background_chunk on its own
MaxRead == 40    \* bytes after which no further chunk is asked for

(***************************************************************************)
(* Program constants.                                                      *)
(***************************************************************************)
\* self.chunk_size = 160  (20ms of audio at 8KHz)
chunk_size == 160
\* self.background_volume = 0.5, as the fraction <<numerator, denominator>>
background_volume == <<1, 2>>
\* b'\xFF', the byte _stream_background uses for silence
SilenceByte == 255
SleepMs == 20    \* asyncio.sleep(0.02) at the end of a mixer iteration

None == "None"

(***************************************************************************)
(* audioop (G.711 u-law) as the interpreter's audioop module computes it.  *)
(* A chunk is a sequence of bytes 0..255; linear PCM is a sequence of      *)
(* 16-bit signed samples.                                                  *)
(***************************************************************************)
Pow2(n) == CASE n = 0 -> 1 [] n = 1 -> 2 [] n = 2 -> 4 [] n = 3 -> 8
             [] n = 4 -> 16 [] n = 5 -> 32 [] n = 6 -> 64 [] n = 7 -> 128
             [] n = 8 -> 256 [] n = 9 -> 512 [] n = 10 -> 1024
             [] n = 11 -> 2048 [] n = 12 -> 4096 [] n = 13 -> 8192
             [] OTHER -> 16384

\* one u-law byte to a 16-bit linear sample
ulaw2lin1(b) ==
    LET u    == 255 - b
        mant == u % 16
        exp  == (u \div 16) % 8
        t    == (mant * 8 + 132) * Pow2(exp)
    IN  IF u >= 128 THEN 132 - t ELSE t - 132

\* segment search of the encoder: the first i with m <= seg_uend[i], else 8
UlawSeg(m) ==
    IF m <= 63 THEN 0 ELSE IF m <= 127 THEN 1 ELSE IF m <= 255 THEN 2
    ELSE IF m <= 511 THEN 3 ELSE IF m <= 1023 THEN 4 ELSE IF m <= 2047 THEN 5
    ELSE IF m <= 4095 THEN 6 ELSE IF m <= 8191 THEN 7 ELSE 8

\* one 16-bit linear sample to a u-law byte
lin2ulaw1(s) ==
    LET v    == s \div 4
        neg  == v < 0
        m0   == IF neg THEN 33 - v ELSE v + 33
        m    == IF m0 > 8159 THEN 8159 ELSE m0
        seg  == UlawSeg(m)
        uval == seg * 16 + ((m \div Pow2(seg + 1)) % 16)
    IN  IF seg >= 8 THEN (IF neg THEN 0 ELSE 128)
        ELSE IF neg THEN 127 - uval ELSE 255 - uval

ulaw2lin(chunk) == [i \in 1..Len(chunk) |-> ulaw2lin1(chunk[i])]

lin2ulaw(pcm) == [i \in 1..Len(pcm) |-> lin2ulaw1(pcm[i])]

Clamp16(x) == IF x > 32767 THEN 32767 ELSE IF x < -32768 THEN -32768 ELSE x

\* an add that wraps around in 16 bits where audioop.add clamps
audioop_add_wrapping(a, b) ==
    [i \in 1..Len(a) |-> ((a[i] + b[i] + 32768) % 65536) - 32768]

\* audioop.add(a, b, 2): defined for equal lengths only (else audioop.error)
audioop_add(a, b) == [i \in 1..Len(a) |-> Clamp16(a[i] + b[i])]

\* audioop.mul(pcm, 2, num/den): floor of the product, clamped
audioop_mul(pcm, vol) == [i \in 1..Len(pcm) |-> Clamp16((pcm[i] * vol[1]) \div vol[2])]

\* mix_chunks filling the shorter chunk up with silence before mixing
mix_chunks_padding(bg_chunk, ai_chunk) ==
    LET n == IF Len(bg_chunk) > Len(ai_chunk) THEN Len(bg_chunk) ELSE Len(ai_chunk)
        pad(c) == [i \in 1..n |-> IF i <= Len(c) THEN c[i] ELSE 255]
    IN  lin2ulaw(audioop_add(ulaw2lin(pad(bg_chunk)), ulaw2lin(pad(ai_chunk))))

\* mix_chunks mixing the part the two chunks have in common
mix_chunks_shortest(bg_chunk, ai_chunk) ==
    LET n == IF Len(bg_chunk) < Len(ai_chunk) THEN Len(bg_chunk) ELSE Len(ai_chunk)
    IN  lin2ulaw(audioop_add(ulaw2lin(SubSeq(bg_chunk, 1, n)),
                             ulaw2lin(SubSeq(ai_chunk, 1, n))))

\* TwilioAudioInterface.mix_chunks: any exception falls back to bg_chunk
mix_chunks(bg_chunk, ai_chunk) ==
    IF Len(bg_chunk) # Len(ai_chunk)
      THEN bg_chunk
      ELSE lin2ulaw(audioop_add(ulaw2lin(bg_chunk), ulaw2lin(ai_chunk)))

\* TwilioAudioInterface._adjust_volume
adjust_volume(audio_chunk, volume) ==
    IF volume[1] = volume[2]
      THEN audio_chunk
      ELSE lin2ulaw(audioop_mul(ulaw2lin(audio_chunk), volume))

\* _adjust_volume(., self.background_volume) byte by byte, tabulated
BackgroundVolumeTable ==
    [b \in 0..255 |-> adjust_volume(<<b>>, background_volume)[1]]


(***************************************************************************)
(* Values.  An optional value is the empty sequence (Python None) or a     *)
(* one-element sequence.                                                   *)
(***************************************************************************)
Nil == <<>>
Some(x) == <<x>>
Truthy(opt) == opt # Nil /\ opt[1] # 0

\* base64.b64encode / base64.b64decode: a distinct representation of the bytes
b64encode(bytes) == [b64 |-> bytes]
b64decode(text) == text.b64

\* the stream and call identifiers Twilio issues with its start events (the
\* k-th start event of a session carries the k-th), the item ids the backend
\* gives its assistant items, and the timestamps media events may carry
SidNames == <<"MZ1", "MZ2">>
CallNames == <<"CA1", "CA2">>
ItemNames == <<"item1", "item2">>
Timestamps == {0, 1}
Sid(k) == SidNames[k]
CallSid(k) == CallNames[k]
Item(k) == ItemNames[k]

\* audio payloads of the environment: the k-th chunk is the one-byte frame <<k>>
InboundAudio(k) == <<k>>
BackendAudio(k) == <<100 + k>>

\* background beds load_background_noise may leave in place: None (file
\* missing), an empty file, a bed shorter than a frame, a bed longer than one
Bed(len) == [i \in 1..len |-> (i * 37) % 256]
BackgroundBeds == {Nil, Some(Bed(7))}

MaxRecordings == 2
RecordingSids == 1..MaxRecordings

(***************************************************************************)
(* State.                                                                  *)
(***************************************************************************)
VARIABLES
    handler,        \* which endpoint serves the call: "app", "openai", "eleven"
    pc,             \* position of the endpoint coroutine
    client_connected, \* the telephony peer still holds the WebSocket
    \* --- TwilioAudioInterface fields (stream_sid is the local of app.py too)
    stream_sid, call_sid, input_callback, running,
    background_noise, background_pos, background_task, ai_audio_queue,
    \* --- locals of the realtime-model relay handlers
    openai_ws, latest_media_timestamp, last_assistant_item, mark_queue,
    response_start_timestamp_twilio,
    \* --- tasks
    mixer_tasks,    \* every _stream_background task created, in creation order
    scheduled,      \* coroutines handed to the event loop, not yet run (FIFO)
    otask,          \* the backend-read task: [pc, item of the delta in hand]
    conversations,  \* every SDK Conversation created: "starting", "running", "ended"
    conversation,   \* index of the handler's current Conversation, 0 for None
    \* --- what has been written to the peers
    twilio_out,     \* messages written to the telephony WebSocket
    openai_out,     \* audio and truncate messages written to the backend socket
    forwarded,      \* audio passed to input_callback, one entry per invocation
    \* --- environment counters and history needed to state the properties
    nStarts, nMedia, \* telephony start / media events handled so far
    seen_start,     \* a start event has been handled
    stop_before_start, \* a stop event was handled before any start event
    stopped,        \* a stop event has been handled
    acked,          \* marks written to telephony that a mark event has answered
    nDeltas,        \* audio chunks the backend has produced so far
    cur_item,       \* number of the assistant item the backend is producing
    first_ts,       \* item -> latest_media_timestamp once its first chunk was relayed
    truncated,      \* the last truncate: its item and audio_end_ms, and the latest
                    \* timestamp and the item's first_ts when it was sent; or Nil
    iteration,      \* what the last mixer iteration polled and built, or Nil
    bytes_read,     \* bytes _get_background_chunk has returned so far
    \* --- the transcription endpoint (websocket-basic) and the recordings
    aai_client,     \* fields of AssemblyAIClient
    media_stream,   \* fields of MediaStream and its start_streaming_audio task;
                    \* messages: length of the list; last_silent: the last
                    \* chunk was below SILENCE_THRESHOLD; playbacks: runs of
                    \* handle_transcription_and_playback; closes: calls of
                    \* websocket.close(); close_error: one of them raised
    transcriber_in, \* chunks handed to RealtimeTranscriber.stream, in order
    recordings      \* the provider's recordings, the bucket's keys,
                    \* processed_recordings of ElevenLabs/main.py, and what
                    \* each download_recording call did

ifaceVars == <<stream_sid, call_sid, input_callback, running, background_noise,
               background_pos, background_task, ai_audio_queue>>
relayVars == <<openai_ws, latest_media_timestamp, last_assistant_item, mark_queue,
               response_start_timestamp_twilio>>
taskVars == <<mixer_tasks, scheduled, otask, conversations, conversation>>
outVars == <<twilio_out, openai_out, forwarded>>
envVars == <<nStarts, nMedia, seen_start, stop_before_start, stopped, acked>>
histVars == <<nDeltas, cur_item, first_ts, truncated, iteration, bytes_read>>
serviceVars == <<aai_client, media_stream, transcriber_in, recordings>>
vars == <<handler, pc, client_connected, ifaceVars, relayVars, taskVars, outVars,
          envVars, histVars, serviceVars>>

Handlers == {"app", "openai", "eleven"}

\* AssemblyAIClient.__init__, MediaStream.__init__, and a provider that holds
\* every recording while the bucket holds none
InitServices ==
    /\ aai_client = [realtime_transcriber |-> FALSE, session_opened |-> FALSE,
                     session_ended |-> FALSE, streaming_started |-> FALSE,
                     audio_chunks |-> <<>>]
    /\ media_stream = [connected |-> TRUE, processing_finished |-> FALSE,
                       audio_started |-> FALSE, received_audio |-> FALSE,
                       silence_count |-> 0, messages |-> 0, task |-> "none",
                       last_silent |-> FALSE, playbacks |-> 0, closes |-> 0,
                       close_error |-> FALSE]
    /\ transcriber_in = <<>>
    /\ recordings = [twilio |-> RecordingSids, s3 |-> {}, processed |-> {},
                     calls |-> <<>>]

\* TwilioAudioInterface.__init__ and the locals of the handlers
InitCommon ==
    /\ InitServices
    /\ client_connected = TRUE
    /\ call_sid = None /\ input_callback = None
    /\ openai_ws = None
    /\ latest_media_timestamp = 0
    /\ last_assistant_item = None
    /\ mark_queue = <<>>
    /\ response_start_timestamp_twilio = Nil
    /\ scheduled = <<>>
    /\ otask = [pc |-> "none", item |-> None]
    /\ conversations = <<>> /\ conversation = 0
    /\ twilio_out = <<>> /\ openai_out = <<>> /\ forwarded = <<>>
    /\ nStarts = 0 /\ nMedia = 0 /\ nDeltas = 0 /\ cur_item = 0
    /\ first_ts = [i \in {} |-> 0]
    /\ truncated = Nil
    /\ seen_start = FALSE /\ stop_before_start = FALSE /\ stopped = FALSE
    /\ acked = 0
    /\ iteration = Nil
    /\ bytes_read = 0

Init ==
    /\ handler \in Handlers
    /\ pc = (CASE handler = "app" -> "connect"
               [] handler = "openai" -> "wait_start"
               [] OTHER -> "loop")
    \* app.py and bidirectional.py have no TwilioAudioInterface, hence no bed
    /\ background_noise \in (IF handler = "app" THEN {Nil} ELSE BackgroundBeds)
    /\ stream_sid = None /\ running = FALSE
    /\ background_pos = 0 /\ background_task = 0
    /\ ai_audio_queue = <<>>
    /\ mixer_tasks = <<>>
    /\ InitCommon


(***************************************************************************)
(* Telephony messages.  ok = FALSE is a message that lacks its "start" /   *)
(* "media" object (reading it raises KeyError).                            *)
(***************************************************************************)
StartMsg(k, ok) == [event |-> "start", ok |-> ok, k |-> k, timestamp |-> 0]
MediaMsg(k, ts, ok) == [event |-> "media", ok |-> ok, k |-> k, timestamp |-> ts]
MarkMsg == [event |-> "mark", ok |-> TRUE, k |-> 0, timestamp |-> 0]
StopMsg == [event |-> "stop", ok |-> TRUE, k |-> 0, timestamp |-> 0]
ConnectedMsg == [event |-> "connected", ok |-> TRUE, k |-> 0, timestamp |-> 0]

\* the messages the telephony side may send next
TwilioMessages ==
    {StartMsg(nStarts + 1, ok) :
            ok \in (IF nStarts < Len(SidNames) THEN BOOLEAN ELSE {})}
    \cup {MediaMsg(nMedia + 1, ts, ok) :
            ts \in Timestamps, ok \in (IF nMedia < MaxMedia THEN BOOLEAN ELSE {})}
    \cup {MarkMsg, StopMsg, ConnectedMsg}

\* message["media"]["payload"]
Payload(message) == b64encode(InboundAudio(message.k))

\* messages written to the telephony socket; item records which assistant item
\* (utterance) a media payload came from
MediaOut(sid, payload, item) ==
    [event |-> "media", streamSid |-> sid, payload |-> Some(payload), item |-> item]
MarkOut(sid) ==
    [event |-> "mark", streamSid |-> sid, payload |-> Nil, item |-> None]
\* item of a clear: the assistant item whose playback it interrupts
ClearOut(sid, item) ==
    [event |-> "clear", streamSid |-> sid, payload |-> Nil, item |-> item]

\* the marks written to the telephony socket so far
MarksSent(out) ==
    Cardinality({i \in DOMAIN out : out[i].event = "mark"})

\* the environment bookkeeping every read-loop step does; telephony answers
\* each mark it was sent with one mark event, so a mark event acknowledges
\* the oldest unanswered mark when there is one
Handled(message) ==
    /\ nStarts' = IF message.event = "start" THEN nStarts + 1 ELSE nStarts
    /\ nMedia' = IF message.event = "media" THEN nMedia + 1 ELSE nMedia
    /\ seen_start' = (seen_start \/ (message.event = "start" /\ message.ok))
    /\ stop_before_start' =
          (stop_before_start \/ (message.event = "stop" /\ ~seen_start))
    /\ stopped' = (stopped \/ message.event = "stop")
    /\ acked' = IF message.event = "mark" /\ acked < MarksSent(twilio_out)
                THEN acked + 1 ELSE acked

(***************************************************************************)
(* TwilioAudioInterface (src/ElevenLabs/twilio_service.py).                *)
(***************************************************************************)
\* the attributes an instance has: the methods of the class and of the SDK's
\* AudioInterface base (start, stop, output, interrupt)
TwilioAudioInterfaceAttrs ==
    {"load_background_noise", "start_background_stream", "stop_background_stream",
     "_stream_background", "_get_background_chunk", "_get_ai_chunk", "mix_chunks",
     "_adjust_volume", "start", "stop", "interrupt", "output", "_send_audio_chunk",
     "_send_clear_message", "handle_twilio_message"}

\* the input_callback media_stream of ElevenLabs/main.py registers: it schedules
\* the send of an input_audio_buffer.append; the SDK's own callback is external
InputCallbackBody(audio_data) ==
    IF handler = "openai"
      THEN scheduled' = Append(scheduled,
              [kind |-> "append", audio |-> audio_data, item |-> None])
      ELSE UNCHANGED scheduled

\* handle_twilio_message raises (KeyError) on these messages
HandleTwilioMessageRaises(message) ==
    \/ message.event = "start" /\ ~message.ok
    \/ message.event = "media" /\ input_callback # None /\ running /\ ~message.ok

\* C5, mutation of handle_twilio_message: the media branch tests the callback
\* only, not running
handle_twilio_message_without_running(message) ==
    IF message.event = "start" /\ ~message.ok
      THEN UNCHANGED <<stream_sid, call_sid, running, forwarded, scheduled>>
    ELSE IF message.event = "start"
      THEN /\ stream_sid' = Sid(message.k)
           /\ call_sid' = CallSid(message.k)
           /\ running' = TRUE
           /\ UNCHANGED <<forwarded, scheduled>>
    ELSE IF message.event = "media" /\ input_callback # None
      THEN /\ forwarded' = Append(forwarded, b64decode(Payload(message)))
           /\ InputCallbackBody(b64decode(Payload(message)))
           /\ UNCHANGED <<stream_sid, call_sid, running>>
    ELSE IF message.event = "stop"
      THEN /\ running' = FALSE
           /\ UNCHANGED <<stream_sid, call_sid, forwarded, scheduled>>
    ELSE UNCHANGED <<stream_sid, call_sid, running, forwarded, scheduled>>

\* handle_twilio_message: its effect on stream_sid, call_sid, running,
\* forwarded and scheduled
handle_twilio_message(message) ==
    IF HandleTwilioMessageRaises(message)
      THEN UNCHANGED <<stream_sid, call_sid, running, forwarded, scheduled>>
    ELSE IF message.event = "start"
      THEN /\ stream_sid' = Sid(message.k)
           /\ call_sid' = CallSid(message.k)
           /\ running' = TRUE
           /\ UNCHANGED <<forwarded, scheduled>>
    ELSE IF message.event = "media" /\ input_callback # None /\ running
      THEN /\ forwarded' = Append(forwarded, b64decode(Payload(message)))
           /\ InputCallbackBody(b64decode(Payload(message)))
           /\ UNCHANGED <<stream_sid, call_sid, running>>
    ELSE IF message.event = "stop"
      THEN /\ running' = FALSE
           /\ UNCHANGED <<stream_sid, call_sid, forwarded, scheduled>>
    ELSE UNCHANGED <<stream_sid, call_sid, running, forwarded, scheduled>>

NewMixerTask == [state |-> "pending", iters |-> 0, frames |-> 0, exc |-> FALSE]

\* start_background_stream: running = True and a new _stream_background task
start_background_stream ==
    /\ running' = TRUE
    /\ mixer_tasks' = Append(mixer_tasks, NewMixerTask)
    /\ background_task' = Len(mixer_tasks) + 1

\* _get_background_chunk: <<chunk, background_pos afterwards>>
RECURSIVE GetBackgroundChunkLoop(_, _, _, _)
GetBackgroundChunkLoop(noise, pos, remaining, chunk) ==
    IF remaining <= 0
      THEN <<chunk, pos>>
      ELSE LET end == pos + remaining IN
           IF end <= Len(noise)
             THEN GetBackgroundChunkLoop(noise, end, 0,
                                         chunk \o SubSeq(noise, pos + 1, end))
             ELSE GetBackgroundChunkLoop(noise, 0, remaining - (Len(noise) - pos),
                                         chunk \o SubSeq(noise, pos + 1, Len(noise)))

\* _get_background_chunk without its else branch: the read stops at the end
get_background_chunk_clipped(noise, pos, length) ==
    LET end == IF pos + length <= Len(noise) THEN pos + length ELSE Len(noise)
    IN  <<SubSeq(noise, pos + 1, end), end>>

\* _get_background_chunk without its else branch: the cursor runs on
get_background_chunk_running_on(noise, pos, length) ==
    <<[i \in 1..length |-> noise[((pos + i - 1) % Len(noise)) + 1]], pos + length>>

get_background_chunk(noise, pos, length) ==
    GetBackgroundChunkLoop(noise, pos, length, <<>>)

\* C10, mutation of _get_ai_chunk: the head is read but left on the queue
get_ai_chunk_peeking(queue) ==
    IF queue = <<>> THEN <<Nil, queue>> ELSE <<Some(Head(queue)), queue>>

\* _get_ai_chunk answering an empty queue with a chunk of silence
get_ai_chunk_silence(queue) ==
    IF queue = <<>> THEN <<Some([i \in 1..chunk_size |-> SilenceByte]), queue>>
                    ELSE <<Some(Head(queue)), Tail(queue)>>

\* _get_ai_chunk: <<the chunk or Nil, the queue afterwards>> (get_nowait)
get_ai_chunk(queue) ==
    IF queue = <<>> THEN <<Nil, queue>> ELSE <<Some(Head(queue)), Tail(queue)>>

\* steps 1 to 3 of one iteration of _stream_background: the chunks it gets,
\* the frame it builds, background_pos and ai_audio_queue afterwards
MixerFrame(noise, pos, queue) ==
    LET has_bed == noise # Nil /\ noise[1] # <<>>
        got     == IF has_bed THEN get_background_chunk(noise[1], pos, chunk_size)
                   ELSE <<[i \in 1..chunk_size |-> SilenceByte], pos>>
        bg      == IF has_bed
                     THEN [i \in 1..Len(got[1]) |-> BackgroundVolumeTable[got[1][i]]]
                     ELSE got[1]
        polled  == get_ai_chunk(queue)
    IN  [bg_chunk |-> bg,
         ai_chunk |-> polled[1],
         mixed_audio |-> IF polled[1] # Nil /\ polled[1][1] # <<>>
                           THEN mix_chunks(bg, polled[1][1]) ELSE bg,
         read |-> IF has_bed THEN Len(got[1]) ELSE 0,
         background_pos |-> got[2],
         ai_audio_queue |-> polled[2]]

\* _stream_background, from the loop test to the next suspension: the task is
\* first run some time after create_task.  self.send_audio_to_twilio is not an
\* attribute of the instance, so the call at the end of the iteration raises
\* AttributeError, which the except clause answers with break.
StreamBackground(t) ==
    /\ t \in 1..Len(mixer_tasks)
    /\ mixer_tasks[t].state \in {"pending", "sleeping"}
    /\ IF running /\ stream_sid # None
         THEN LET frame == MixerFrame(background_noise, background_pos, ai_audio_queue)
                  sent  == "send_audio_to_twilio" \in TwilioAudioInterfaceAttrs
              IN  /\ bytes_read' = bytes_read + frame.read
                  /\ iteration' = Some([bg_chunk |-> frame.bg_chunk,
                                         ai_chunk |-> frame.ai_chunk,
                                         mixed_audio |-> frame.mixed_audio,
                                         sleep |-> IF sent THEN Some(SleepMs) ELSE Nil])
                  /\ background_pos' = frame.background_pos
                  /\ ai_audio_queue' = frame.ai_audio_queue
                  /\ mixer_tasks' = [mixer_tasks EXCEPT ![t] =
                        [state |-> IF sent THEN "sleeping" ELSE "done",
                         iters |-> @.iters + 1,
                         frames |-> IF sent THEN @.frames + 1 ELSE @.frames,
                         exc |-> ~sent]]
                  /\ twilio_out' = IF sent /\ client_connected
                        THEN Append(twilio_out,
                                    MediaOut(stream_sid, b64encode(frame.mixed_audio), None))
                        ELSE twilio_out
         ELSE /\ mixer_tasks' = [mixer_tasks EXCEPT ![t].state = "done"]
              /\ UNCHANGED <<iteration, bytes_read, background_pos, ai_audio_queue, twilio_out>>
    /\ UNCHANGED <<serviceVars, handler, pc, client_connected, stream_sid, call_sid, input_callback,
                   running, background_noise, background_task, relayVars, scheduled,
                   otask, conversations, conversation, openai_out, forwarded, envVars,
                   nDeltas, cur_item, first_ts, truncated>>

\* C3, mutation of _send_audio_chunk: the test of stream_sid is dropped
send_audio_chunk_unguarded(audio, item) ==
    twilio_out' =
        IF client_connected
          THEN Append(twilio_out, MediaOut(stream_sid, b64encode(audio), item))
          ELSE twilio_out

\* _send_audio_chunk: nothing before the stream is known; websocket.send_text
\* raises once the peer is gone (swallowed), application_state stays CONNECTED
\* because no handler closes the socket itself
send_audio_chunk(audio, item) ==
    twilio_out' =
        IF stream_sid = None THEN twilio_out
        ELSE IF client_connected
          THEN Append(twilio_out, MediaOut(stream_sid, b64encode(audio), item))
          ELSE twilio_out

\* _send_clear_message
send_clear_message ==
    twilio_out' =
        IF stream_sid = None THEN twilio_out
        ELSE IF client_connected
          THEN Append(twilio_out, ClearOut(stream_sid, None))
          ELSE twilio_out

\* the task input_callback created: openai_ws.send of input_audio_buffer.append
SendAppend(audio) ==
    openai_out' =
        IF openai_ws = "open"
          THEN Append(openai_out, [type |-> "append", audio |-> b64encode(audio),
                                   item |-> None, audio_end_ms |-> 0])
          ELSE openai_out

\* a coroutine handed to the loop by run_coroutine_threadsafe / create_task runs
RunScheduled ==
    /\ scheduled # <<>>
    /\ LET co == Head(scheduled) IN
       /\ scheduled' = Tail(scheduled)
       /\ CASE co.kind = "audio" ->
                 send_audio_chunk(co.audio, co.item) /\ UNCHANGED openai_out
            [] co.kind = "clear" ->
                 send_clear_message /\ UNCHANGED openai_out
            [] OTHER ->
                 SendAppend(co.audio) /\ UNCHANGED twilio_out
    /\ UNCHANGED <<serviceVars, handler, pc, client_connected, ifaceVars, relayVars, mixer_tasks,
                   otask, conversations, conversation, forwarded, envVars, histVars>>

\* output() putting its send ahead of the sends already handed over
output_ahead(audio, item) ==
    scheduled' = <<[kind |-> "audio", audio |-> audio, item |-> item]>> \o scheduled

\* output(audio): hands _send_audio_chunk(audio) to the loop
output(audio, item) ==
    scheduled' = Append(scheduled, [kind |-> "audio", audio |-> audio, item |-> item])

\* interrupt(): hands _send_clear_message() to the loop
interrupt ==
    scheduled' = Append(scheduled, [kind |-> "clear", audio |-> <<>>, item |-> None])

\* stop() without its assignment to stream_sid
stop_keeping_stream ==
    /\ input_callback' = None
    /\ call_sid' = None
    /\ stream_sid' = stream_sid
    /\ running' = FALSE

\* stop()
stop ==
    /\ input_callback' = None
    /\ call_sid' = None
    /\ stream_sid' = None
    /\ running' = FALSE


(***************************************************************************)
(* The backend-read task of the realtime-model relays:                     *)
(* handle_openai_ws (app.py, bidirectional.py), handle_openai_messages     *)
(* (ElevenLabs/main.py).  Positions: "recv" (async for), "d_sent" (after   *)
(* the await of the media send, app only), "m_sent" (after the await in    *)
(* send_mark), "t_sent" (after the await of the truncate send), "c_sent"   *)
(* (after the await of the clear send), "done", "failed".                  *)
(***************************************************************************)
DeltaMsg(i) == [type |-> "response.audio.delta", item |-> Item(i), k |-> nDeltas + 1]
EmptyDeltaMsg == [type |-> "response.audio.delta", item |-> None, k |-> 0]
SpeechStartedMsg == [type |-> "input_audio_buffer.speech_started", item |-> None, k |-> 0]
ResponseDoneMsg == [type |-> "response.done", item |-> None, k |-> 0]

\* the messages the backend may send next: a chunk of the current assistant
\* item or of the next one, speech-started, or a message the relay ignores
BackendMessages ==
    {DeltaMsg(i) : i \in {j \in {cur_item, cur_item + 1} :
                            j >= 1 /\ j <= Len(ItemNames) /\ nDeltas < MaxDeltas}}
    \cup {EmptyDeltaMsg, SpeechStartedMsg, ResponseDoneMsg}

ItemNumber(item) == CHOOSE i \in 1..Len(ItemNames) : ItemNames[i] = item

TruncateOut(item, ms) ==
    [type |-> "truncate", audio |-> b64encode(<<>>), item |-> item, audio_end_ms |-> ms]

\* websocket.send_json of the backend-read task: raises once the peer is gone
OTaskSend(message, next_pc, item) ==
    IF client_connected
      THEN /\ twilio_out' = Append(twilio_out, message)
           /\ otask' = [pc |-> next_pc, item |-> item]
      ELSE /\ twilio_out' = twilio_out
           /\ otask' = [pc |-> "failed", item |-> item]

\* if not response_start_timestamp_twilio: ... ; if item_id: last_assistant_item = ...
RecordUtteranceStart(item) ==
    /\ first_ts' = IF item \in DOMAIN first_ts THEN first_ts
                   ELSE (item :> latest_media_timestamp) @@ first_ts
    /\ response_start_timestamp_twilio' =
          IF Truthy(response_start_timestamp_twilio)
            THEN response_start_timestamp_twilio
            ELSE Some(latest_media_timestamp)
    /\ last_assistant_item' = item

\* send_mark up to its await: a mark event, only once the stream is known
send_mark(item) ==
    IF stream_sid # None
      THEN OTaskSend(MarkOut(stream_sid), "m_sent", item)
      ELSE /\ twilio_out' = twilio_out
           /\ otask' = [pc |-> "recv", item |-> item]

\* a response.audio.delta with audio, up to the first await
OnAudioDelta(msg) ==
    /\ nDeltas' = nDeltas + 1
    /\ cur_item' = ItemNumber(msg.item)
    /\ IF handler = "app"
         THEN /\ OTaskSend(MediaOut(stream_sid, b64encode(BackendAudio(msg.k)), msg.item),
                           "d_sent", msg.item)
              /\ UNCHANGED <<scheduled, response_start_timestamp_twilio,
                             last_assistant_item, first_ts>>
         ELSE /\ output(b64decode(b64encode(BackendAudio(msg.k))), msg.item)
              /\ RecordUtteranceStart(msg.item)
              /\ send_mark(msg.item)
    /\ UNCHANGED <<openai_out, truncated, mark_queue>>

\* handle_speech_started_event acting when either condition holds
handle_speech_started_event_either ==
    IF mark_queue # <<>> \/ response_start_timestamp_twilio # Nil
      THEN /\ OTaskSend(ClearOut(stream_sid, last_assistant_item), "c_sent",
                        last_assistant_item)
           /\ UNCHANGED <<openai_out, truncated>>
      ELSE UNCHANGED <<openai_out, truncated, otask, twilio_out>>

\* handle_speech_started_event up to its first await
handle_speech_started_event ==
    IF mark_queue # <<>> /\ response_start_timestamp_twilio # Nil
      THEN LET elapsed_time == latest_media_timestamp - response_start_timestamp_twilio[1]
           IN  IF last_assistant_item # None
                 THEN /\ openai_out' = Append(openai_out,
                                          TruncateOut(last_assistant_item, elapsed_time))
                      /\ truncated' = Some([item |-> last_assistant_item,
                                            audio_end_ms |-> elapsed_time,
                                            latest |-> latest_media_timestamp,
                                            first |-> first_ts[last_assistant_item]])
                      /\ otask' = [pc |-> "t_sent", item |-> last_assistant_item]
                      /\ UNCHANGED twilio_out
                 ELSE /\ OTaskSend(ClearOut(stream_sid, last_assistant_item), "c_sent",
                                   last_assistant_item)
                      /\ UNCHANGED <<openai_out, truncated>>
      ELSE UNCHANGED <<openai_out, truncated, otask, twilio_out>>

\* one message of the backend socket is read and handled up to the first await
OpenAIMessage(msg) ==
    /\ handler \in {"app", "openai"}
    /\ otask.pc = "recv" /\ openai_ws = "open"
    /\ msg \in BackendMessages
    /\ IF msg.type = "response.audio.delta" /\ msg.k # 0
         THEN OnAudioDelta(msg)
       ELSE IF msg.type = "input_audio_buffer.speech_started"
         THEN /\ handle_speech_started_event
              /\ UNCHANGED <<nDeltas, cur_item, first_ts, scheduled,
                             response_start_timestamp_twilio, last_assistant_item,
                             mark_queue>>
       ELSE UNCHANGED <<nDeltas, cur_item, first_ts, scheduled, openai_out, truncated,
                        otask, twilio_out, response_start_timestamp_twilio,
                        last_assistant_item, mark_queue>>
    /\ UNCHANGED <<serviceVars, handler, pc, client_connected, ifaceVars, openai_ws,
                   latest_media_timestamp, mixer_tasks, conversations, conversation,
                   forwarded, envVars, iteration, bytes_read>>

\* app.py: after the media send, record the utterance start and send the mark
OTaskAfterMedia ==
    /\ otask.pc = "d_sent"
    /\ RecordUtteranceStart(otask.item)
    /\ send_mark(otask.item)
    /\ UNCHANGED <<serviceVars, handler, pc, client_connected, ifaceVars, openai_ws,
                   latest_media_timestamp, mark_queue, mixer_tasks, scheduled,
                   conversations, conversation, openai_out, forwarded, envVars,
                   nDeltas, cur_item, truncated, iteration, bytes_read>>

\* send_mark after its await: mark_queue.append('responsePart')
OTaskAfterMark ==
    /\ otask.pc = "m_sent"
    /\ mark_queue' = Append(mark_queue, "responsePart")
    /\ otask' = [otask EXCEPT !.pc = "recv"]
    /\ UNCHANGED <<serviceVars, handler, pc, client_connected, ifaceVars, openai_ws,
                   latest_media_timestamp, last_assistant_item,
                   response_start_timestamp_twilio, mixer_tasks, scheduled,
                   conversations, conversation, outVars, envVars, histVars>>

\* handle_speech_started_event after the truncate send: the clear event
OTaskAfterTruncate ==
    /\ otask.pc = "t_sent"
    /\ OTaskSend(ClearOut(stream_sid, last_assistant_item), "c_sent", otask.item)
    /\ UNCHANGED <<serviceVars, handler, pc, client_connected, ifaceVars, relayVars, mixer_tasks,
                   scheduled, conversations, conversation, openai_out, forwarded,
                   envVars, histVars>>

\* the reset without its last assignment: the utterance start is kept
OTaskAfterClearKeepingStart ==
    /\ otask.pc = "c_sent"
    /\ mark_queue' = <<>>
    /\ last_assistant_item' = None
    /\ otask' = [otask EXCEPT !.pc = "recv"]
    /\ UNCHANGED <<serviceVars, handler, pc, client_connected, ifaceVars, openai_ws,
                   latest_media_timestamp, response_start_timestamp_twilio,
                   mixer_tasks, scheduled, conversations,
                   conversation, outVars, envVars, histVars>>

\* handle_speech_started_event after the clear send: the reset
OTaskAfterClear ==
    /\ otask.pc = "c_sent"
    /\ mark_queue' = <<>>
    /\ last_assistant_item' = None
    /\ response_start_timestamp_twilio' = Nil
    /\ otask' = [otask EXCEPT !.pc = "recv"]
    /\ UNCHANGED <<serviceVars, handler, pc, client_connected, ifaceVars, openai_ws,
                   latest_media_timestamp, mixer_tasks, scheduled, conversations,
                   conversation, outVars, envVars, histVars>>

\* the backend closes its socket and the async for of the read task ends
BackendCloses ==
    /\ openai_ws = "open" /\ otask.pc = "recv"
    /\ openai_ws' = "closed"
    /\ otask' = [otask EXCEPT !.pc = "done"]
    /\ UNCHANGED <<serviceVars, handler, pc, client_connected, ifaceVars, latest_media_timestamp,
                   last_assistant_item, mark_queue, response_start_timestamp_twilio,
                   mixer_tasks, scheduled, conversations, conversation, outVars,
                   envVars, histVars>>

(***************************************************************************)
(* media_stream of app.py and bidirectional.py.                            *)
(***************************************************************************)
\* websockets.connect, initialize_session, create_task(handle_openai_ws())
AppConnect ==
    /\ handler = "app" /\ pc = "connect"
    /\ \E ok \in BOOLEAN :
         IF ok
           THEN /\ openai_ws' = "open"
                /\ otask' = [otask EXCEPT !.pc = "recv"]
                /\ pc' = "loop"
           ELSE /\ pc' = "except"
                /\ UNCHANGED <<openai_ws, otask>>
    /\ UNCHANGED <<serviceVars, handler, client_connected, ifaceVars, latest_media_timestamp,
                   last_assistant_item, mark_queue, response_start_timestamp_twilio,
                   mixer_tasks, scheduled, conversations, conversation, outVars,
                   envVars, histVars>>

\* one turn of the while True loop: receive_json and the event branches
AppLoop(msg) ==
    /\ handler = "app" /\ pc = "loop" /\ client_connected
    /\ msg \in TwilioMessages
    /\ Handled(msg)
    /\ IF msg.event \in {"media", "start"} /\ ~msg.ok
         THEN /\ pc' = "except"
              /\ UNCHANGED <<latest_media_timestamp, openai_out, stream_sid,
                             response_start_timestamp_twilio, mark_queue, first_ts>>
       ELSE IF msg.event = "media"
         THEN /\ latest_media_timestamp' = msg.timestamp
              /\ IF openai_ws = "open"
                   THEN /\ openai_out' = Append(openai_out,
                               [type |-> "append", audio |-> Payload(msg),
                                item |-> None, audio_end_ms |-> 0])
                        /\ pc' = pc
                   ELSE /\ pc' = "except"
                        /\ openai_out' = openai_out
              /\ UNCHANGED <<stream_sid, response_start_timestamp_twilio, mark_queue,
                             first_ts>>
       ELSE IF msg.event = "start"
         THEN /\ stream_sid' = Sid(msg.k)
              /\ response_start_timestamp_twilio' = Nil
              /\ latest_media_timestamp' = 0
              \* the clock restarts: utterance starts are counted anew
              /\ first_ts' = [i \in {} |-> 0]
              /\ UNCHANGED <<pc, openai_out, mark_queue>>
       ELSE IF msg.event = "mark"
         THEN /\ mark_queue' = IF mark_queue # <<>> THEN Tail(mark_queue) ELSE mark_queue
              /\ UNCHANGED <<pc, latest_media_timestamp, openai_out, stream_sid,
                             response_start_timestamp_twilio, first_ts>>
       ELSE UNCHANGED <<pc, latest_media_timestamp, openai_out, stream_sid,
                        response_start_timestamp_twilio, mark_queue, first_ts>>
    /\ UNCHANGED <<serviceVars, handler, client_connected, call_sid, input_callback, running,
                   background_noise, background_pos, background_task, ai_audio_queue,
                   openai_ws, last_assistant_item, taskVars, twilio_out, forwarded,
                   nDeltas, cur_item,
                   truncated, iteration, bytes_read>>

\* the telephony peer closes the socket and receive delivers the disconnect:
\* WebSocketDisconnect in the realtime relays; iter_text simply ends in
\* handle_media_stream
RecvDisconnect ==
    /\ client_connected
    /\ pc \in {"loop", "wait_start"}
    /\ client_connected' = FALSE
    /\ pc' = IF handler = "eleven" THEN "finally" ELSE "except"
    /\ UNCHANGED <<serviceVars, handler, ifaceVars, relayVars, taskVars, outVars, envVars,
                   histVars>>

\* the except clauses: openai_ws.close().  In app.py and bidirectional.py
\* openai_ws is unbound when connect itself raised, and the clause raises.
Except ==
    /\ pc = "except"
    /\ IF handler = "app"
         THEN IF openai_ws = None
                THEN pc' = "crashed" /\ UNCHANGED openai_ws
                ELSE pc' = "done" /\ openai_ws' = "closed"
         ELSE /\ pc' = "finally"
              /\ openai_ws' = IF openai_ws = None THEN None ELSE "closed"
    /\ UNCHANGED <<serviceVars, handler, client_connected, ifaceVars, latest_media_timestamp,
                   last_assistant_item, mark_queue, response_start_timestamp_twilio,
                   taskVars, outVars, envVars, histVars>>

(***************************************************************************)
(* media_stream of ElevenLabs/main.py.                                     *)
(***************************************************************************)
\* the first loop: wait for the start event, then start the mixer
OpenAIWaitStart(msg) ==
    /\ handler = "openai" /\ pc = "wait_start" /\ client_connected
    /\ msg \in TwilioMessages
    /\ Handled(msg)
    /\ handle_twilio_message(msg)
    /\ IF HandleTwilioMessageRaises(msg)
         THEN pc' = "except" /\ UNCHANGED <<mixer_tasks, background_task>>
       ELSE IF msg.event = "start"
         THEN pc' = "connect" /\ start_background_stream
       ELSE UNCHANGED <<pc, mixer_tasks, background_task>>
    /\ UNCHANGED <<serviceVars, handler, client_connected, input_callback, background_noise,
                   background_pos, ai_audio_queue, relayVars, otask, conversations,
                   conversation, twilio_out, openai_out, histVars>>

\* websockets.connect, audio_interface.start(input_callback),
\* initialize_session, create_task(handle_openai_messages())
OpenAIConnect ==
    /\ handler = "openai" /\ pc = "connect"
    /\ \E ok \in BOOLEAN :
         IF ok
           THEN /\ openai_ws' = "open"
                /\ input_callback' = "input_callback"
                /\ otask' = [otask EXCEPT !.pc = "recv"]
                /\ pc' = "loop"
           ELSE /\ pc' = "except"
                /\ UNCHANGED <<openai_ws, input_callback, otask>>
    /\ UNCHANGED <<serviceVars, handler, client_connected, stream_sid, call_sid, running,
                   background_noise, background_pos, background_task, ai_audio_queue,
                   latest_media_timestamp, last_assistant_item, mark_queue,
                   response_start_timestamp_twilio, mixer_tasks, scheduled,
                   conversations, conversation, outVars, envVars, histVars>>

\* one turn of the second loop
OpenAILoop(msg) ==
    /\ handler = "openai" /\ pc = "loop" /\ client_connected
    /\ msg \in TwilioMessages
    /\ Handled(msg)
    /\ handle_twilio_message(msg)
    /\ IF HandleTwilioMessageRaises(msg) \/ (msg.event = "media" /\ ~msg.ok)
         THEN pc' = "except" /\ UNCHANGED latest_media_timestamp
       ELSE IF msg.event = "media"
         THEN latest_media_timestamp' = msg.timestamp /\ UNCHANGED pc
       ELSE UNCHANGED <<pc, latest_media_timestamp>>
    /\ UNCHANGED <<serviceVars, handler, client_connected, input_callback, background_noise,
                   background_pos, background_task, ai_audio_queue, openai_ws,
                   last_assistant_item, mark_queue, response_start_timestamp_twilio,
                   mixer_tasks, otask, conversations, conversation, twilio_out,
                   openai_out, histVars>>

\* stop_background_stream without its first statement: running stays as it is
FinallyKeepingRunning ==
    /\ pc = "finally"
    /\ pc' = "await_bg"
    /\ UNCHANGED <<serviceVars, handler, client_connected, ifaceVars, relayVars, taskVars,
                   outVars, envVars, histVars>>

\* finally: stop_background_stream up to its await
Finally ==
    /\ pc = "finally"
    /\ running' = FALSE
    /\ pc' = "await_bg"
    /\ UNCHANGED <<serviceVars, handler, client_connected, stream_sid, call_sid, input_callback,
                   background_noise, background_pos, background_task, ai_audio_queue,
                   relayVars, taskVars, outVars, envVars, histVars>>

\* stop_background_stream returns once background_task is done; then
\* audio_interface.stop() (media_stream), or conversation.end_session(), which
\* calls audio_interface.stop(), when a conversation exists (handle_media_stream)
AwaitBackground ==
    /\ pc = "await_bg"
    /\ IF background_task = 0 THEN TRUE
       ELSE mixer_tasks[background_task].state = "done"
    /\ pc' = "done"
    /\ IF handler = "openai"
         THEN stop /\ UNCHANGED conversations
       ELSE IF conversation # 0
         THEN stop /\ conversations' = [conversations EXCEPT ![conversation] = "ended"]
       ELSE UNCHANGED <<input_callback, call_sid, stream_sid, running, conversations>>
    /\ UNCHANGED <<serviceVars, handler, client_connected, background_noise, background_pos,
                   background_task, ai_audio_queue, relayVars, mixer_tasks, scheduled,
                   otask, conversation, outVars, envVars, histVars>>

(***************************************************************************)
(* handle_media_stream of ElevenLabs/main.py and the SDK Conversation.     *)
(***************************************************************************)
\* one turn of async for message in websocket.iter_text()
ElevenLoop(msg) ==
    /\ handler = "eleven" /\ pc = "loop" /\ client_connected
    /\ msg \in TwilioMessages
    /\ Handled(msg)
    /\ handle_twilio_message(msg)
    /\ IF HandleTwilioMessageRaises(msg)
         THEN /\ pc' = "finally"
              /\ UNCHANGED <<mixer_tasks, background_task, conversations, conversation>>
       ELSE IF msg.event = "start"
         THEN /\ start_background_stream
              /\ conversations' = Append(conversations, "starting")
              /\ conversation' = Len(conversations) + 1
              /\ UNCHANGED pc
       ELSE UNCHANGED <<pc, mixer_tasks, background_task, conversations, conversation>>
    /\ UNCHANGED <<serviceVars, handler, client_connected, input_callback, background_noise,
                   background_pos, ai_audio_queue, relayVars, otask, twilio_out,
                   openai_out, histVars>>

\* the session thread of a Conversation calls audio_interface.start(cb)
SdkStart(c) ==
    /\ c \in 1..Len(conversations) /\ conversations[c] = "starting"
    /\ conversations' = [conversations EXCEPT ![c] = "running"]
    /\ input_callback' = "input_callback"
    /\ UNCHANGED <<serviceVars, handler, pc, client_connected, stream_sid, call_sid, running,
                   background_noise, background_pos, background_task, ai_audio_queue,
                   relayVars, mixer_tasks, scheduled, otask, conversation, outVars,
                   envVars, histVars>>

\* the session thread calls audio_interface.output(audio)
SdkOutput(c) ==
    /\ c \in 1..Len(conversations) /\ conversations[c] = "running"
    /\ nDeltas < MaxDeltas
    /\ nDeltas' = nDeltas + 1
    /\ output(BackendAudio(nDeltas + 1), None)
    /\ UNCHANGED <<serviceVars, handler, pc, client_connected, ifaceVars, relayVars, mixer_tasks,
                   otask, conversations, conversation, outVars, envVars, cur_item,
                   first_ts, truncated, iteration,
                   bytes_read>>

\* the session thread calls audio_interface.interrupt()
SdkInterrupt(c) ==
    /\ c \in 1..Len(conversations) /\ conversations[c] = "running"
    /\ nDeltas < MaxDeltas
    /\ nDeltas' = nDeltas + 1
    /\ interrupt
    /\ UNCHANGED <<serviceVars, handler, pc, client_connected, ifaceVars, relayVars, mixer_tasks,
                   otask, conversations, conversation, outVars, envVars, cur_item,
                   first_ts, truncated, iteration,
                   bytes_read>>

\* the k-th chunk the backend produces, len bytes long: its first byte tells
\* the chunks apart, as in BackendAudio
BackendChunk(k, len) == [i \in 1..len |-> IF i = 1 THEN 100 + k ELSE 127]

\* chunks the SDK may hand to output() as its k-th: one byte, a whole frame
\* period, and one byte more than a frame period
OutputChunks(k) ==
    {BackendChunk(k, len) : len \in {1, chunk_size, chunk_size + 1}}

\* a caller of the interface calls output(audio) with a chunk of any length
Output(audio) ==
    /\ nDeltas < MaxDeltas
    /\ audio \in OutputChunks(nDeltas + 1)
    /\ nDeltas' = nDeltas + 1
    /\ output(audio, None)
    /\ UNCHANGED <<serviceVars, handler, pc, client_connected, ifaceVars, relayVars, mixer_tasks,
                   otask, conversations, conversation, outVars, envVars, cur_item,
                   first_ts, truncated, iteration,
                   bytes_read>>

\* chunks of agent speech a producer may have put on ai_audio_queue: a whole
\* frame, a short chunk, and no bytes at all
AiChunks == {[i \in 1..chunk_size |-> 127 + (i % 2)], <<0, 255>>, <<>>}

RECURSIVE SeqsUpTo(_, _)
SeqsUpTo(S, n) ==
    IF n = 0 THEN {<<>>}
    ELSE LET shorter == SeqsUpTo(S, n - 1)
         IN  shorter \cup {Append(q, x) : q \in shorter, x \in S}

\* the mixer task about to run its loop, on an interface in any state of its
\* bed, its cursor, its queue (a public attribute), its stream id and running
InitMixer ==
    /\ handler = "eleven" /\ pc = "loop"
    /\ background_noise \in BackgroundBeds
    /\ background_pos \in (IF background_noise = Nil THEN {0}
                            ELSE 0..(Len(background_noise[1]) - 1))
    /\ ai_audio_queue \in SeqsUpTo(AiChunks, MaxQueue)
    /\ stream_sid \in {None, Sid(1)}
    /\ running \in BOOLEAN
    /\ mixer_tasks = <<NewMixerTask>> /\ background_task = 1
    /\ InitCommon

(***************************************************************************)
(* The specification.                                                      *)
(***************************************************************************)
\* steps of the event loop shared by the handlers built on TwilioAudioInterface
NextInterface ==
    \/ RecvDisconnect
    \/ Finally
    \/ AwaitBackground
    \/ \E t \in 1..Len(mixer_tasks) : StreamBackground(t)
    \/ RunScheduled

\* steps of the backend-read task of the realtime-model relays
NextBackendRead ==
    \/ \E msg \in BackendMessages : OpenAIMessage(msg)
    \/ OTaskAfterMark
    \/ OTaskAfterTruncate
    \/ OTaskAfterClear
    \/ BackendCloses
    \/ Except

NextApp ==
    \/ \E msg \in TwilioMessages : AppLoop(msg)
    \/ AppConnect
    \/ RecvDisconnect
    \/ OTaskAfterMedia
    \/ NextBackendRead

NextOpenAI ==
    \/ \E msg \in TwilioMessages : OpenAIWaitStart(msg)
    \/ \E msg \in TwilioMessages : OpenAILoop(msg)
    \/ OpenAIConnect
    \/ NextInterface
    \/ NextBackendRead

NextEleven ==
    \/ \E msg \in TwilioMessages : ElevenLoop(msg)
    \/ \E c \in 1..Len(conversations) : SdkStart(c)
    \/ \E c \in 1..Len(conversations) : SdkOutput(c)
    \/ \E c \in 1..Len(conversations) : SdkInterrupt(c)
    \/ NextInterface

NextMixer == \E t \in 1..Len(mixer_tasks) : StreamBackground(t)

Next == NextApp \/ NextOpenAI \/ NextEleven

\* every handler
Spec == Init /\ [][Next]_vars

\* media_stream of app.py / bidirectional.py
InitApp == Init /\ handler = "app"
SpecApp == InitApp /\ [][NextApp]_vars

\* media_stream of ElevenLabs/main.py
InitOpenAI == Init /\ handler = "openai"
SpecOpenAI == InitOpenAI /\ [][NextOpenAI]_vars

\* handle_media_stream of ElevenLabs/main.py
InitEleven == Init /\ handler = "eleven"
SpecEleven == InitEleven /\ [][NextEleven]_vars

\* one run of _stream_background from every state of the interface
SpecMixer == InitMixer /\ [][NextMixer]_vars

\* output(), the sends it schedules and the mixer
NextOutput ==
    \/ \E audio \in OutputChunks(nDeltas + 1) : Output(audio)
    \/ RunScheduled
    \/ NextMixer

\* nothing in the repository puts a chunk on ai_audio_queue: it is empty, and
\* the background cursor is at its start
InitOutput == InitMixer /\ ai_audio_queue = <<>> /\ background_pos = 0
SpecOutput == InitOutput /\ [][NextOutput]_vars

\* _get_background_chunk called on its own, with a bed of any of a few lengths
\* and any positive length asked for
BedLengths == {1, 3, 7}
InitBackgroundChunk ==
    /\ handler = "eleven" /\ pc = "loop"
    /\ background_noise \in {Some(Bed(len)) : len \in BedLengths}
    /\ background_pos = 0
    /\ ai_audio_queue = <<>>
    /\ stream_sid = Sid(1) /\ running = TRUE
    /\ mixer_tasks = <<>> /\ background_task = 0
    /\ InitCommon

GetBackgroundChunk(length) ==
    /\ length \in 1..MaxChunk
    /\ bytes_read < MaxRead
    /\ LET got == get_background_chunk(background_noise[1], background_pos, length)
       IN  /\ background_pos' = got[2]
           /\ bytes_read' = bytes_read + Len(got[1])
    /\ UNCHANGED <<serviceVars, handler, pc, client_connected, stream_sid, call_sid,
                   input_callback, running, background_noise, background_task,
                   ai_audio_queue, relayVars, taskVars, outVars, envVars, nDeltas,
                   cur_item, first_ts, truncated, iteration>>

NextBackgroundChunk == \E length \in 1..MaxChunk : GetBackgroundChunk(length)

SpecBackgroundChunk == InitBackgroundChunk /\ [][NextBackgroundChunk]_vars

\* mix_chunks called on its own with two chunks of equal length: every pair of
\* one-sample chunks, and the two-sample chunks of extreme and silent samples
MixChunks ==
    {<<x>> : x \in 0..255} \cup {<<x, y>> : x, y \in {0, 127, 128, 255}}

MixChunksCall(a, b) ==
    /\ iteration = Nil
    /\ a \in MixChunks /\ b \in MixChunks /\ Len(a) = Len(b)
    /\ iteration' = Some([bg_chunk |-> a, ai_chunk |-> Some(b),
                           mixed_audio |-> mix_chunks(a, b)])
    /\ UNCHANGED <<serviceVars, handler, pc, client_connected, ifaceVars, relayVars, taskVars,
                   outVars, envVars, nDeltas, cur_item, first_ts, truncated,
                   bytes_read>>

\* one call per behaviour
NextMixChunks == iteration = Nil /\ \E a, b \in MixChunks : MixChunksCall(a, b)

InitMixChunks ==
    InitOutput /\ background_noise = Nil /\ stream_sid = Sid(1) /\ running
SpecMixChunks == InitMixChunks /\ [][NextMixChunks]_vars

\* teardown of the mixer: the read loop ends, stop_background_stream runs, and
\* the mixer task is scheduled at any moment before, between or after
NextTeardown ==
    \/ RecvDisconnect
    \/ Finally
    \/ AwaitBackground
    \/ NextMixer

SpecTeardown == InitMixer /\ [][NextTeardown]_vars

\* media_stream of ElevenLabs/main.py from the point where its second loop
\* starts: the first loop has handled one well-formed start event, the backend
\* socket is connected, audio_interface.start has run and the backend-read
\* task has been created
InitOpenAIRelay ==
    /\ handler = "openai" /\ pc = "loop"
    /\ client_connected = TRUE
    /\ stream_sid = Sid(1) /\ call_sid = CallSid(1)
    /\ input_callback = "input_callback" /\ running = TRUE
    /\ background_noise \in BackgroundBeds
    /\ background_pos = 0 /\ background_task = 1
    /\ ai_audio_queue = <<>>
    /\ openai_ws = "open"
    /\ latest_media_timestamp = 0
    /\ last_assistant_item = None
    /\ mark_queue = <<>>
    /\ response_start_timestamp_twilio = Nil
    /\ mixer_tasks = <<NewMixerTask>>
    /\ scheduled = <<>>
    /\ otask = [pc |-> "recv", item |-> None]
    /\ conversations = <<>> /\ conversation = 0
    /\ twilio_out = <<>> /\ openai_out = <<>> /\ forwarded = <<>>
    /\ nStarts = 1 /\ nMedia = 0 /\ nDeltas = 0 /\ cur_item = 0
    /\ first_ts = [i \in {} |-> 0]
    /\ truncated = Nil
    /\ seen_start = TRUE /\ stop_before_start = FALSE /\ stopped = FALSE
    /\ acked = 0
    /\ iteration = Nil
    /\ bytes_read = 0
    /\ InitServices

\* telephony sends one start event per stream, and the first loop has consumed
\* it: the second loop sees the other events
RelayMessages == {msg \in TwilioMessages : msg.event # "start"}

NextOpenAIRelay ==
    \/ \E msg \in RelayMessages : OpenAILoop(msg)
    \/ NextInterface
    \/ NextBackendRead

SpecOpenAIRelay == InitOpenAIRelay /\ [][NextOpenAIRelay]_vars

\* handle_media_stream in the middle of a call: the start event has been
\* handled, the mixer task created, and the Conversation's session thread has
\* called start(); telephony sends no further start event
InitCall ==
    /\ handler = "eleven" /\ pc = "loop"
    /\ client_connected = TRUE
    /\ stream_sid = Sid(1) /\ call_sid = CallSid(1)
    /\ input_callback = "input_callback" /\ running = TRUE
    /\ background_noise \in BackgroundBeds
    /\ background_pos = 0 /\ background_task = 1
    /\ ai_audio_queue = <<>>
    /\ openai_ws = None
    /\ latest_media_timestamp = 0
    /\ last_assistant_item = None
    /\ mark_queue = <<>>
    /\ response_start_timestamp_twilio = Nil
    /\ mixer_tasks = <<NewMixerTask>>
    /\ scheduled = <<>>
    /\ otask = [pc |-> "none", item |-> None]
    /\ conversations = <<"running">> /\ conversation = 1
    /\ twilio_out = <<>> /\ openai_out = <<>> /\ forwarded = <<>>
    /\ nStarts = 1 /\ nMedia = 0 /\ nDeltas = 0 /\ cur_item = 0
    /\ first_ts = [i \in {} |-> 0]
    /\ truncated = Nil
    /\ seen_start = TRUE /\ stop_before_start = FALSE /\ stopped = FALSE
    /\ acked = 0
    /\ iteration = Nil
    /\ bytes_read = 0
    /\ InitServices

NextCall ==
    \/ \E msg \in RelayMessages : ElevenLoop(msg)
    \/ \E c \in 1..Len(conversations) : SdkOutput(c)
    \/ \E c \in 1..Len(conversations) : SdkInterrupt(c)
    \/ NextInterface

SpecCall == InitCall /\ [][NextCall]_vars

\* media_stream of app.py / bidirectional.py in the middle of a call: the
\* backend is connected, the start event has been handled and no agent audio
\* is playing; the media events handled so far have left any timestamp in
\* latest_media_timestamp.  The logs and counters of the history start here.
InitBargeIn ==
    /\ handler = "app" /\ pc = "loop"
    /\ client_connected = TRUE
    /\ stream_sid = Sid(1) /\ call_sid = None
    /\ input_callback = None /\ running = FALSE
    /\ background_noise = Nil /\ background_pos = 0 /\ background_task = 0
    /\ ai_audio_queue = <<>>
    /\ openai_ws = "open"
    /\ latest_media_timestamp \in Timestamps
    /\ response_start_timestamp_twilio = Nil
    /\ last_assistant_item = None
    /\ mark_queue = <<>>
    /\ mixer_tasks = <<>>
    /\ scheduled = <<>>
    /\ otask = [pc |-> "recv", item |-> None]
    /\ conversations = <<>> /\ conversation = 0
    /\ twilio_out = <<>> /\ openai_out = <<>> /\ forwarded = <<>>
    /\ nStarts = 1 /\ nMedia = 0 /\ nDeltas = 0 /\ cur_item = 0
    /\ first_ts = [i \in {} |-> 0]
    /\ truncated = Nil
    /\ seen_start = TRUE /\ stop_before_start = FALSE /\ stopped = FALSE
    /\ acked = 0
    /\ iteration = Nil
    /\ bytes_read = 0
    /\ InitServices

NextBargeIn ==
    \/ \E msg \in RelayMessages : AppLoop(msg)
    \/ RecvDisconnect
    \/ OTaskAfterMedia
    \/ NextBackendRead

SpecBargeIn == InitBargeIn /\ [][NextBargeIn]_vars

\* the event loop runs every coroutine of the handler that is ready: the
\* backend-read task after each of its awaits, and the except clause.  What
\* telephony and the backend send, and when, is up to them.
FairnessApp ==
    /\ WF_vars(OTaskAfterMedia)
    /\ WF_vars(OTaskAfterMark)
    /\ WF_vars(OTaskAfterTruncate)
    /\ WF_vars(OTaskAfterClear)
    /\ WF_vars(Except)

SpecBargeInFair == SpecBargeIn /\ FairnessApp

(***************************************************************************)
(* The transcription endpoint: MediaStream (websocket-basic/media_stream.py)*)
(* and AssemblyAIClient (websocket-basic/assemblyai_client.py).  The k-th   *)
(* media event carries audio chunk k; media_stream.messages is the length   *)
(* of the list of that name.                                                *)
(***************************************************************************)
\* media events of one transcription call
MaxAudioChunks == 5
\* SILENCE_DURATION_MS // CHUNK_DURATION_MS
SILENCE_CHUNKS_REQUIRED == 100

\* AssemblyAIClient.start_realtime_transcription_session
start_realtime_transcription_session ==
    [realtime_transcriber |-> TRUE, session_opened |-> FALSE,
     session_ended |-> FALSE, streaming_started |-> FALSE, audio_chunks |-> <<>>]

\* AssemblyAIClient.add_audio_chunk
add_audio_chunk(client, audio_data) ==
    IF ~client.realtime_transcriber \/ client.session_ended
      THEN client
      ELSE [client EXCEPT !.audio_chunks = Append(@, audio_data)]

\* AssemblyAIClient.stop_realtime_transcription: close() ends in on_close
stop_realtime_transcription(client) ==
    IF client.realtime_transcriber /\ ~client.session_ended
      THEN [client EXCEPT !.session_ended = TRUE]
      ELSE client

\* MediaStream.process_message, event "start"
ProcessStart ==
    /\ media_stream.connected /\ ~media_stream.processing_finished
    /\ aai_client' = start_realtime_transcription_session
    /\ UNCHANGED <<handler, pc, client_connected, ifaceVars, relayVars, taskVars,
                   outVars, envVars, histVars, media_stream, transcriber_in,
                   recordings>>

\* the SDK's reader thread reports the session as begun: on_open
OnOpen ==
    /\ aai_client.realtime_transcriber
    /\ ~aai_client.session_opened /\ ~aai_client.session_ended
    /\ aai_client' = [aai_client EXCEPT !.session_opened = TRUE]
    /\ UNCHANGED <<handler, pc, client_connected, ifaceVars, relayVars, taskVars,
                   outVars, envVars, histVars, media_stream, transcriber_in,
                   recordings>>

\* the counter counting every silent chunk, not the current run of them
count_silence_total(stream, silent) ==
    IF silent THEN stream.silence_count + 1 ELSE stream.silence_count

\* the silence detection of a media event: the run of silent chunks so far
count_silence(stream, silent) ==
    IF silent THEN stream.silence_count + 1 ELSE 0

\* MediaStream.close calling websocket.close() whatever connected says
close_unguarded(stream, raises) ==
    [stream EXCEPT !.connected = FALSE, !.closes = @ + 1,
                   !.close_error = @ \/ raises]

\* MediaStream.close: websocket.close() only while connected; an exception it
\* raises is logged, and connected is cleared in the finally clause
close(stream, raises) ==
    IF stream.connected
      THEN [stream EXCEPT !.connected = FALSE, !.closes = @ + 1,
                          !.close_error = @ \/ raises]
      ELSE stream

\* MediaStream.process_message, event "media": handle_media_event.  silent is
\* rms < SILENCE_THRESHOLD for the chunk of this event; raises: the
\* websocket.close() of a close() made here raises.  When the silence has
\* lasted, the playback is written to the telephony socket of this endpoint
\* (not part of the state) before the close.
ProcessMedia(silent, raises) ==
    /\ pc = "loop"
    /\ IF ~media_stream.connected \/ media_stream.processing_finished
         THEN UNCHANGED <<aai_client, media_stream>>
         ELSE LET added == add_audio_chunk(aai_client, media_stream.messages + 1)
                  silence_count == count_silence(media_stream, silent)
                  received_audio == media_stream.received_audio \/ ~silent
                  finished == /\ received_audio
                              /\ silence_count >= SILENCE_CHUNKS_REQUIRED
                  handled ==
                      [media_stream EXCEPT
                         !.audio_started = TRUE,
                         !.task = IF media_stream.audio_started THEN @
                                  ELSE "scheduled",
                         !.silence_count = silence_count,
                         !.received_audio = received_audio,
                         !.last_silent = silent,
                         !.messages = @ + 1,
                         !.playbacks = IF finished THEN @ + 1 ELSE @,
                         !.processing_finished = finished]
              IN  /\ aai_client' = IF finished
                                     THEN stop_realtime_transcription(added)
                                     ELSE added
                  /\ media_stream' = IF finished THEN close(handled, raises)
                                                 ELSE handled
    /\ UNCHANGED <<handler, pc, client_connected, ifaceVars, relayVars, taskVars,
                   outVars, envVars, histVars, transcriber_in, recordings>>

\* MediaStream.process_message, event "close": close(); in app.py after the
\* playback of what has been received (plays)
ProcessClose(plays, raises) ==
    /\ pc = "loop"
    /\ IF ~media_stream.connected \/ media_stream.processing_finished
         THEN UNCHANGED media_stream
         ELSE media_stream' =
                 close([media_stream EXCEPT
                          !.playbacks =
                             IF plays /\ media_stream.received_audio
                                      /\ media_stream.messages > 0
                               THEN @ + 1 ELSE @],
                       raises)
    /\ UNCHANGED <<handler, pc, client_connected, ifaceVars, relayVars, taskVars,
                   outVars, envVars, histVars, aai_client, transcriber_in,
                   recordings>>

\* websocket_endpoint: receive_text raises WebSocketDisconnect (the peer has
\* gone), or receive_text or process_message raises another exception; both
\* except clauses end in MediaStream.close()
EndpointExcept(disconnect, raises) ==
    /\ pc = "loop"
    /\ disconnect => client_connected
    /\ client_connected' = (client_connected /\ ~disconnect)
    /\ media_stream' = close(media_stream, raises)
    /\ pc' = "done"
    /\ UNCHANGED <<handler, ifaceVars, relayVars, taskVars, outVars, envVars,
                   histVars, aai_client, transcriber_in, recordings>>

\* the task of MediaStream.start_streaming_audio running
\* AssemblyAIClient.start_streaming_audio to its end: the wait for the session
\* (opened: it is open by the end of the wait, else the 5 s pass), then
\* stream(audio_generator()) over the buffer, on the event loop's thread
StartStreamingAudio(opened) ==
    /\ media_stream.task = "scheduled"
    /\ media_stream' = [media_stream EXCEPT !.task = "done"]
    /\ IF ~aai_client.realtime_transcriber \/ aai_client.session_ended
         THEN UNCHANGED <<aai_client, transcriber_in>>
         ELSE /\ aai_client.session_opened => opened
              /\ IF ~opened
                   THEN UNCHANGED <<aai_client, transcriber_in>>
                   ELSE IF aai_client.streaming_started
                     THEN /\ aai_client' = [aai_client EXCEPT !.session_opened = TRUE]
                          /\ UNCHANGED transcriber_in
                     ELSE /\ aai_client' = [aai_client EXCEPT
                                               !.session_opened = TRUE,
                                               !.streaming_started = TRUE]
                          /\ transcriber_in' =
                                transcriber_in \o aai_client.audio_chunks
    /\ UNCHANGED <<handler, pc, client_connected, ifaceVars, relayVars, taskVars,
                   outVars, envVars, histVars, recordings>>

StreamingTask == \E opened \in BOOLEAN : StartStreamingAudio(opened)

InitTranscription == InitEleven /\ background_noise = Nil

\* telephony sends one start event, and media events after it
NextTranscription ==
    \/ ~aai_client.realtime_transcriber /\ ProcessStart
    \/ OnOpen
    \/ /\ aai_client.realtime_transcriber
       /\ media_stream.messages < MaxAudioChunks
       /\ \E silent \in BOOLEAN : ProcessMedia(silent, FALSE)
    \/ StreamingTask

SpecTranscription == InitTranscription /\ [][NextTranscription]_vars

\* the event loop runs a task it has been given
SpecTranscriptionFair == SpecTranscription /\ WF_vars(StreamingTask)

\* media events of a call that is left to fall silent
MaxMessages == 102

\* the endpoint with a MediaStream that has no realtime session (that of
\* app.py; that of media_stream.py before a start event): media and close
\* events, the streaming task, disconnects and exceptions.  The connected,
\* start and mark events only log.
NextSilence ==
    \/ /\ media_stream.messages < MaxMessages
       /\ \E silent, raises \in BOOLEAN : ProcessMedia(silent, raises)
    \/ \E plays, raises \in BOOLEAN : ProcessClose(plays, raises)
    \/ \E disconnect, raises \in BOOLEAN : EndpointExcept(disconnect, raises)
    \/ StreamingTask

SpecSilence == InitTranscription /\ [][NextSilence]_vars

(***************************************************************************)
(* RecordingsHandler.download_recording (ElevenLabs/twilio_service.py) and  *)
(* AWSHandler.upload_recording (ElevenLabs/aws_handler.py).                 *)
(***************************************************************************)
\* calls of download_recording
MaxCalls == 3

\* how far a call gets: the step that raises, or none
Outcomes == {"fetch_fails", "download_fails", "write_fails", "upload_fails",
             "delete_fails", "ok"}

\* AWSHandler.upload_recording which returns None where it should raise
upload_recording_swallowing(s3, recording_sid, ok) ==
    IF ok THEN [s3 |-> s3 \cup {recording_sid}, raised |-> FALSE,
                url |-> Some(recording_sid)]
          ELSE [s3 |-> s3, raised |-> FALSE, url |-> Nil]

\* AWSHandler.upload_recording: the key is in the bucket and its URL is
\* returned, or the exception is raised again
upload_recording(s3, recording_sid, ok) ==
    IF ok THEN [s3 |-> s3 \cup {recording_sid}, raised |-> FALSE,
                url |-> Some(recording_sid)]
          ELSE [s3 |-> s3, raised |-> TRUE, url |-> Nil]

\* TwilioService.delete_recording: an exception is printed, not raised
delete_recording(twilio, recording_sid, ok) ==
    IF ok THEN twilio \ {recording_sid} ELSE twilio

\* RecordingsHandler.download_recording: the provider and the bucket
\* afterwards, and the value returned
download_recording(rec, recording_sid, outcome) ==
    LET failed(result) == [twilio |-> rec.twilio, s3 |-> rec.s3, result |-> result]
    IN  IF recording_sid \notin rec.twilio \/ outcome = "fetch_fails"
          THEN failed(Nil)
        ELSE IF outcome \in {"download_fails", "write_fails"}
          THEN failed(Nil)
        ELSE LET up == upload_recording(rec.s3, recording_sid,
                                        outcome # "upload_fails")
             IN  IF up.raised
                   THEN failed(Nil)
                   ELSE [twilio |-> delete_recording(rec.twilio, recording_sid,
                                                     outcome # "delete_fails"),
                         s3 |-> up.s3,
                         result |-> up.url]

DownloadRecording(recording_sid, outcome) ==
    /\ Len(recordings.calls) < MaxCalls
    /\ LET done == download_recording(recordings, recording_sid, outcome)
       IN  recordings' =
              [twilio |-> done.twilio, s3 |-> done.s3,
               processed |-> recordings.processed,
               calls |-> Append(recordings.calls,
                                [recording_sid |-> recording_sid,
                                 outcome |-> outcome,
                                 held |-> recording_sid \in recordings.twilio,
                                 deleted |-> /\ recording_sid \in recordings.twilio
                                             /\ recording_sid \notin done.twilio,
                                 result |-> done.result])]
    /\ UNCHANGED <<handler, pc, client_connected, ifaceVars, relayVars, taskVars,
                   outVars, envVars, histVars, aai_client, media_stream,
                   transcriber_in>>

NextRecordings ==
    \E recording_sid \in RecordingSids, outcome \in Outcomes :
        DownloadRecording(recording_sid, outcome)

SpecRecordings == InitTranscription /\ [][NextRecordings]_vars

\* r.duration of a recording of the call: the first one is not finalized
Duration(recording_sid) == recording_sid - 1

\* handle_recording_complete for the call that owns the recordings.  Its one
\* await is request.form() at the top; from list_recordings on it runs without
\* suspension.  kept: the recordings whose delete_recording call fails
\* (printed, not raised); details_ok: fetch_call_details and the time
\* conversion do not raise.
HandleRecordingComplete(kept, outcome, details_ok) ==
    /\ Len(recordings.calls) < MaxCalls
    /\ LET listed == recordings.twilio
           finalized_recordings == {r \in listed : Duration(r) > 0}
       IN  IF listed = {} \/ finalized_recordings = {}
             THEN UNCHANGED recordings
             ELSE LET longest_recording ==
                          CHOOSE r \in finalized_recordings :
                              \A o \in finalized_recordings : Duration(o) <= Duration(r)
                      others == listed \ {longest_recording}
                      rec == [recordings EXCEPT !.twilio = @ \ (others \ kept)]
                      done == download_recording(rec, longest_recording, outcome)
                  IN  /\ kept \subseteq others
                      /\ IF longest_recording \in recordings.processed
                           THEN recordings' = rec
                           ELSE recordings' =
                                  [twilio |-> done.twilio, s3 |-> done.s3,
                                   processed |->
                                      IF done.result # Nil /\ details_ok
                                        THEN rec.processed \cup {longest_recording}
                                        ELSE rec.processed,
                                   calls |-> Append(rec.calls,
                                      [recording_sid |-> longest_recording,
                                       outcome |-> outcome,
                                       held |-> TRUE,
                                       deleted |-> longest_recording \notin done.twilio,
                                       result |-> done.result])]
    /\ UNCHANGED <<handler, pc, client_connected, ifaceVars, relayVars, taskVars,
                   outVars, envVars, histVars, aai_client, media_stream,
                   transcriber_in>>

NextCallbacks ==
    \E kept \in SUBSET RecordingSids, outcome \in Outcomes, details_ok \in BOOLEAN :
        HandleRecordingComplete(kept, outcome, details_ok)

SpecCallbacks == InitTranscription /\ [][NextCallbacks]_vars

(***************************************************************************)
(* Properties.                                                             *)
(***************************************************************************)
Last(seq) == seq[Len(seq)]

\* the mixer task t runs one iteration of its loop in this step
Iterates(t) == mixer_tasks'[t].iters = mixer_tasks[t].iters + 1

\* C1 (realtime-model relay): once a clear event has been sent to telephony for
\* an interruption, no audio chunk of the interrupted assistant item is written
\* to telephony after it.
C1_NoInterruptedAudioAfterClear ==
    \A i, j \in DOMAIN twilio_out :
        (i < j /\ twilio_out[i].event = "clear" /\ twilio_out[j].event = "media")
            => twilio_out[j].item # twilio_out[i].item

\* C2 (realtime-model relay): the truncate sent on speech-started carries
\* audio_end_ms = latest inbound media timestamp minus the timestamp that was
\* current when the first chunk of that same assistant item was relayed.
C2_TruncateCountsFromUtteranceStart ==
    truncated # Nil =>
        truncated[1].audio_end_ms = truncated[1].latest - truncated[1].first

\* C3 (TwilioAudioInterface): nothing is written to the telephony socket while
\* stream_sid is unset, and every message written carries the stream_sid that a
\* start event stored.
C3_WritesCarryStoredStreamSid ==
    [][twilio_out' # twilio_out =>
          /\ stream_sid # None
          /\ stream_sid \in {Sid(k) : k \in 1..nStarts}
          /\ twilio_out' = Append(twilio_out, Last(twilio_out'))
          /\ Last(twilio_out').event \in {"media", "clear"}
          /\ Last(twilio_out').streamSid = stream_sid]_vars

\* C3 witness: audio and a clear have been written on the second stream of a
\* session.
C3_Witness ==
    \E i, j \in DOMAIN twilio_out :
        /\ twilio_out[i].event = "media" /\ twilio_out[i].streamSid = Sid(2)
        /\ twilio_out[j].event = "clear" /\ twilio_out[j].streamSid = Sid(2)

\* C4 (realtime-model relay): until a start event has been handled no audio
\* flows: no inbound media is sent to the backend and no media message is sent
\* to telephony.
C4_NoAudioBeforeStart ==
    ~seen_start =>
        /\ \A i \in DOMAIN twilio_out : twilio_out[i].event # "media"
        /\ \A i \in DOMAIN openai_out : openai_out[i].type # "append"

\* C5 (handle_twilio_message): a well-formed media event is forwarded, decoded,
\* by exactly one callback invocation when a callback is registered and running
\* is true (which implies a start event was handled); in every other state a
\* media event changes nothing and forwards nothing.
C5_MediaForwardedIffActive ==
    [][(nMedia' = nMedia + 1 /\ pc' = pc) =>
          IF input_callback # None /\ running
            THEN /\ seen_start
                 /\ forwarded' = Append(forwarded, InboundAudio(nMedia + 1))
                 /\ UNCHANGED <<ifaceVars, taskVars, twilio_out>>
            ELSE UNCHANGED <<ifaceVars, taskVars, outVars>>]_vars

\* C5 witness: the media event of the session has been forwarded to the
\* callback, once.
C5_Witness ==
    /\ forwarded = <<InboundAudio(1)>> /\ nMedia = 1
    /\ input_callback # None /\ running /\ pc = "loop"

\* C6 (handle_twilio_message): once a stop event has been handled, no media
\* event is forwarded any more, whatever events follow.
C6_NoMediaForwardedAfterStop ==
    [][stopped => forwarded' = forwarded]_vars

\* C7: when a stop event is handled before any start event the session never
\* becomes active: no mixer task, no backend conversation, nothing forwarded.
C7_StopBeforeStartNeverActive ==
    stop_before_start =>
        (mixer_tasks = <<>> /\ conversations = <<>> /\ forwarded = <<>>)

\* C8 (_stream_background): every iteration of the mixer loop writes exactly
\* one frame tagged with the current stream id to the open telephony socket,
\* and the loop goes on.
C8_EveryIterationTransmits ==
    [][\A t \in DOMAIN mixer_tasks :
          (Iterates(t) /\ client_connected) =>
              /\ Len(twilio_out') = Len(twilio_out) + 1
              /\ Last(twilio_out').event = "media"
              /\ Last(twilio_out').streamSid = stream_sid
              /\ mixer_tasks'[t].state # "done"]_vars

\* C9 (_stream_background): an exception raised in an iteration costs one
\* frame only: the loop is not ended by it.
C9_ExceptionDropsOneFrame ==
    \A t \in DOMAIN mixer_tasks :
        mixer_tasks[t].exc => mixer_tasks[t].state # "done"

\* C10 (_get_ai_chunk): the poll is part of the iteration's single step: it
\* yields the head of ai_audio_queue and removes exactly that element when the
\* queue is non-empty, and None when it is empty, and then the frame built is
\* the background chunk (silence when there is no bed) unmixed.
C10_PollNeverWaits ==
    [][\A t \in DOMAIN mixer_tasks :
          Iterates(t) =>
              /\ iteration' # Nil
              /\ IF ai_audio_queue = <<>>
                   THEN /\ iteration'[1].ai_chunk = Nil
                        /\ ai_audio_queue' = <<>>
                        /\ iteration'[1].mixed_audio = iteration'[1].bg_chunk
                        /\ background_noise = Nil =>
                              iteration'[1].mixed_audio =
                                  [i \in 1..chunk_size |-> SilenceByte]
                   ELSE /\ iteration'[1].ai_chunk = Some(Head(ai_audio_queue))
                        /\ ai_audio_queue' = Tail(ai_audio_queue)]_vars

\* C10 witness: an iteration took the head of a queue of two chunks and left
\* the other one.
C10_Witness ==
    /\ iteration # Nil /\ iteration[1].ai_chunk # Nil
    /\ Len(ai_audio_queue) = 1

\* the media messages written to the telephony socket so far
MediaSent(out) ==
    Cardinality({i \in DOMAIN out : out[i].event = "media"})

\* C11: every agent audio chunk relayed to telephony is followed, never
\* preceded, by its one mark event: at every moment the telephony socket has
\* been written at most as many marks as media messages, and the
\* outstanding-marker list holds one marker per mark written.  Stated for the
\* relay that sends audio through a scheduled coroutine and the mark directly
\* from the backend-read loop.
C11_MarkFollowsItsMedia ==
    /\ MarksSent(twilio_out) <= MediaSent(twilio_out)
    /\ Len(mark_queue) <= MarksSent(twilio_out)

\* C12: the outstanding-marker list is the sequence of markers written to
\* telephony that telephony has not acknowledged yet.  Every marker is the
\* same string, so the list equals that sequence when it has as many entries
\* as marks were written and not answered; the moment between the write of a
\* mark and the append of its marker (the await in send_mark) is left out.
C12_MarkQueueIsUnacknowledged ==
    otask.pc # "m_sent" => Len(mark_queue) = MarksSent(twilio_out) - acked

\* a truncate instruction is among the messages written to the backend
HasTruncate(out) == \E i \in DOMAIN out : out[i].type = "truncate"

\* C13: a barge-in during playback (markers outstanding, an utterance start
\* recorded) runs its steps in order while the telephony socket is open: the
\* truncate for the last assistant item is written to the backend and nothing
\* else changes; the next step of the handler writes exactly one clear event
\* to telephony; the step after that empties the outstanding-marker list and
\* unsets the last assistant item and the utterance start.  No other task
\* writes to telephony in between, and an unset utterance start is next set
\* to the latest media timestamp of that moment.
C13_BargeInStepsInOrder ==
    [][/\ (otask.pc # "t_sent" /\ otask'.pc = "t_sent") =>
            /\ otask.pc = "recv"
            /\ mark_queue # <<>> /\ response_start_timestamp_twilio # Nil
            /\ openai_out' = Append(openai_out,
                   TruncateOut(last_assistant_item,
                       latest_media_timestamp - response_start_timestamp_twilio[1]))
            /\ UNCHANGED <<twilio_out, mark_queue, last_assistant_item,
                           response_start_timestamp_twilio>>
       /\ (otask.pc = "t_sent" /\ otask' # otask) =>
            IF client_connected
              THEN /\ otask'.pc = "c_sent"
                   /\ twilio_out' =
                         Append(twilio_out, ClearOut(stream_sid, last_assistant_item))
                   /\ UNCHANGED <<openai_out, mark_queue, last_assistant_item,
                                  response_start_timestamp_twilio>>
              ELSE otask'.pc = "failed" /\ UNCHANGED <<twilio_out, openai_out>>
       /\ (otask.pc = "c_sent" /\ otask' # otask) =>
            /\ otask'.pc = "recv"
            /\ mark_queue' = <<>>
            /\ last_assistant_item' = None
            /\ response_start_timestamp_twilio' = Nil
            /\ UNCHANGED <<twilio_out, openai_out>>
       /\ (otask.pc \in {"t_sent", "c_sent"} /\ otask' = otask) =>
            twilio_out' = twilio_out
       /\ (response_start_timestamp_twilio = Nil
              /\ response_start_timestamp_twilio' # Nil) =>
            response_start_timestamp_twilio' = Some(latest_media_timestamp)
      ]_vars

\* C13 witness: a barge-in has run to its end (truncate and clear written) and
\* a later chunk has recorded a new utterance start
C13_Witness ==
    /\ HasTruncate(openai_out)
    /\ \E i \in DOMAIN twilio_out :
          /\ twilio_out[i].event = "clear"
          /\ \E j \in DOMAIN twilio_out : j > i /\ twilio_out[j].event = "media"
    /\ response_start_timestamp_twilio # Nil
    /\ otask.pc = "recv"

\* C14: once interrupt() has been called, no agent chunk is pending any more
\* and the clear goes out before any further chunk: while a clear is waiting
\* to be written, ai_audio_queue is empty and no chunk handed to output() is
\* waiting ahead of it.
C14_InterruptDropsPendingAudio ==
    \A j \in DOMAIN scheduled :
        scheduled[j].kind = "clear" =>
            /\ ai_audio_queue = <<>>
            /\ \A i \in 1..(j - 1) : scheduled[i].kind # "audio"

\* C15: the elapsed offset audio_end_ms of a truncate instruction is never
\* negative, whatever media timestamps telephony sent.
C15_TruncateOffsetNotNegative ==
    \A i \in DOMAIN openai_out :
        openai_out[i].type = "truncate" => openai_out[i].audio_end_ms >= 0

\* C16: no media message carrying agent speech is longer than one frame
\* period (chunk_size bytes): a longer chunk is split before it is sent.
C16_MediaWithinOneFrame ==
    \A i \in DOMAIN twilio_out :
        twilio_out[i].event = "media" =>
            Len(b64decode(twilio_out[i].payload[1])) <= chunk_size

\* the number of the backend chunk a media message carries
ChunkNumber(message) == b64decode(message.payload[1])[1] - 100

\* C17: the audio chunks of one utterance reach telephony in the order the
\* backend produced them, however the scheduled sends, the read loop and the
\* mixer interleave: of two media messages of the same utterance, the one
\* written earlier carries the chunk produced earlier.
C17_ChunksInProductionOrder ==
    \A i, j \in DOMAIN twilio_out :
        (/\ i < j
         /\ twilio_out[i].event = "media" /\ twilio_out[j].event = "media"
         /\ twilio_out[i].item = twilio_out[j].item)
        => ChunkNumber(twilio_out[i]) < ChunkNumber(twilio_out[j])

\* C17 witness: two chunks of one utterance have been transmitted, and the
\* mixer has run meanwhile
C17_Witness ==
    /\ \E i, j \in DOMAIN twilio_out :
          /\ i < j
          /\ twilio_out[i].event = "media" /\ twilio_out[j].event = "media"
          /\ twilio_out[i].item = twilio_out[j].item
    /\ \E t \in DOMAIN mixer_tasks : mixer_tasks[t].state # "pending"

\* C18: a malformed or unexpected telephony event does not end the read loop:
\* the loop is only left in a step that delivers the disconnect or handles
\* the first stop event.
C18_ReadLoopSurvivesBadEvents ==
    [][(pc = "loop" /\ pc' # "loop") =>
          \/ client_connected /\ ~client_connected'
          \/ ~stopped /\ stopped'
      ]_vars

\* C19: when a handler has finished, whatever ended the session, every
\* conversation session that was started has been ended and a backend socket
\* that was opened is closed.
C19_EverythingOpenedIsClosed ==
    pc = "done" =>
        /\ \A c \in DOMAIN conversations : conversations[c] = "ended"
        /\ openai_ws \in {None, "closed"}

\* C20: closing the backend is safe when opening it failed: the except clause
\* that runs after a failed connect raises nothing itself, so the handler
\* never ends in the error its own teardown raised on the missing handle.
C20_TeardownSafeAfterFailedConnect ==
    pc # "crashed"

\* C21: once the backend-read task has ended (the backend closed its socket,
\* or a send of the task raised), the handler eventually leaves its relay
\* loop for teardown, whether or not telephony disconnects.
C21_BackendEndLeadsToTeardown ==
    (otask.pc \in {"done", "failed"}) ~> (pc # "loop")

\* C22: once teardown has called stop_background_stream, no mixer task begins
\* another iteration or writes a frame, and when stop_background_stream has
\* returned the task it awaited has ended.
C22_MixerStopsAtIterationBoundary ==
    /\ [](pc = "done" =>
            (background_task # 0 => mixer_tasks[background_task].state = "done"))
    /\ [][(pc = "await_bg" \/ pc = "done") =>
            /\ \A t \in DOMAIN mixer_tasks :
                  mixer_tasks'[t].iters = mixer_tasks[t].iters
            /\ twilio_out' = twilio_out]_vars

\* C22 witness: stop_background_stream has returned, and the mixer task ended
\* because it saw running cleared, not because an iteration raised
C22_Witness ==
    /\ pc = "done"
    /\ background_task # 0
    /\ mixer_tasks[background_task].state = "done"
    /\ ~mixer_tasks[background_task].exc
    /\ stream_sid # None

\* C23, as stated: after any calls of _get_background_chunk the cursor is an
\* index of the buffer and equals the number of bytes read so far modulo the
\* buffer length L.
C23_CursorIsBytesReadModLength ==
    background_noise # Nil =>
        /\ background_pos \in 0..(Len(background_noise[1]) - 1)
        /\ background_pos = bytes_read % Len(background_noise[1])

\* C23, amended: the cursor is between 0 and L inclusive and congruent to the
\* number of bytes read modulo L; it rests at L, not 0, after a read that
\* ends exactly at the end of the buffer.
C23_CursorCongruentToBytesRead ==
    background_noise # Nil =>
        /\ background_pos \in 0..Len(background_noise[1])
        /\ background_pos % Len(background_noise[1])
              = bytes_read % Len(background_noise[1])

\* C23 witness: reads have wrapped around the buffer and the cursor stands
\* inside it
C23_Witness ==
    /\ background_noise # Nil
    /\ bytes_read > 2 * Len(background_noise[1])
    /\ background_pos \in 1..(Len(background_noise[1]) - 1)

\* the u-law bytes of the largest negative and the largest positive sample
MaxNegative == 0
MaxPositive == 128

\* C24: mix_chunks is commutative and saturating on chunks of equal length:
\* mixing in the other order gives the same bytes, two samples of the same
\* sign never mix to a sample of the other sign, and two samples of maximum
\* amplitude and the same sign mix to the maximum amplitude of that sign.
C24_MixCommutesAndSaturates ==
    (iteration # Nil /\ iteration[1].ai_chunk # Nil) =>
        LET a == iteration[1].bg_chunk
            b == iteration[1].ai_chunk[1]
            mixed == iteration[1].mixed_audio
        IN  Len(a) = Len(b) =>
              /\ mixed = mix_chunks(b, a)
              /\ Len(mixed) = Len(a)
              /\ \A i \in 1..Len(a) :
                    /\ (ulaw2lin1(a[i]) > 0 /\ ulaw2lin1(b[i]) > 0)
                          => ulaw2lin1(mixed[i]) > 0
                    /\ (ulaw2lin1(a[i]) < 0 /\ ulaw2lin1(b[i]) < 0)
                          => ulaw2lin1(mixed[i]) < 0
                    /\ (a[i] = MaxPositive /\ b[i] = MaxPositive)
                          => mixed[i] = MaxPositive
                    /\ (a[i] = MaxNegative /\ b[i] = MaxNegative)
                          => mixed[i] = MaxNegative

\* C24 witness: two samples of maximum positive amplitude have been mixed
C24_Witness ==
    /\ iteration # Nil
    /\ iteration[1].bg_chunk = <<MaxPositive>>
    /\ iteration[1].ai_chunk = Some(<<MaxPositive>>)
    /\ iteration[1].mixed_audio = <<MaxPositive>>

\* C25: every iteration of the mixer loop ends in a sleep that lasts the rest
\* of the frame period: the task is asleep afterwards, for no longer than the
\* period and shorter by the time the iteration has taken (which is at least
\* nothing).
C25_IterationSleepsForRemainder ==
    [][\A t \in DOMAIN mixer_tasks :
          Iterates(t) =>
              /\ mixer_tasks'[t].state = "sleeping"
              /\ iteration'[1].sleep # Nil
              /\ iteration'[1].sleep[1] <= SleepMs
      ]_vars

Range(seq) == {seq[i] : i \in DOMAIN seq}

\* C26: a chunk that has been added to the buffer of an open realtime session
\* is eventually handed to the realtime transcriber (unless the session ends
\* or is started anew first).
C26_AcceptedChunkIsStreamed ==
    \A k \in 1..MaxAudioChunks :
        (/\ aai_client.session_opened /\ ~aai_client.session_ended
         /\ k \in Range(aai_client.audio_chunks))
        ~> (\/ k \in Range(transcriber_in)
            \/ k \notin Range(aai_client.audio_chunks)
            \/ aai_client.session_ended)

\* C27: a call of download_recording in which the fetch, the download, the
\* temporary file or the upload fails returns None and deletes nothing; a
\* call that deletes the recording from the provider has put it in the bucket.
C27_DeleteOnlyAfterUpload ==
    \A i \in DOMAIN recordings.calls :
        LET call == recordings.calls[i] IN
        /\ call.outcome \in {"fetch_fails", "download_fails", "write_fails",
                              "upload_fails"}
              => call.result = Nil /\ ~call.deleted
        /\ call.deleted => call.recording_sid \in recordings.s3
        /\ recordings.twilio \cup recordings.s3 = RecordingSids

\* C27: a held recording whose upload failed is still held, and another call
\* has deleted a recording
C27_Witness ==
    /\ \E i \in DOMAIN recordings.calls :
          /\ recordings.calls[i].outcome = "upload_fails"
          /\ recordings.calls[i].held
          /\ recordings.calls[i].recording_sid \in recordings.twilio
    /\ \E i \in DOMAIN recordings.calls : recordings.calls[i].deleted

\* C28: ai_audio_queue is empty in every state of a call served through
\* TwilioAudioInterface, so the poll of every mixer iteration finds nothing and
\* the frame the iteration builds is its background chunk (the attenuated bed,
\* or silence) unmixed.
C28_PendingAudioQueueStaysEmpty ==
    /\ ai_audio_queue = <<>>
    /\ iteration # Nil =>
          /\ iteration[1].ai_chunk = Nil
          /\ iteration[1].mixed_audio = iteration[1].bg_chunk

\* C28 witness: agent speech has gone out through output() and its scheduled
\* send, and the mixer has built a frame from a bed
C28_Witness ==
    /\ background_noise # Nil
    /\ iteration # Nil
    /\ \E i \in DOMAIN twilio_out : twilio_out[i].event = "media"

\* C29: on one WebSocket of the conversational-agent handler, whatever
\* telephony sends, at most one mixer task is unfinished and at most one
\* Conversation is not ended at any time, and when the handler has returned no
\* mixer task is unfinished and no Conversation is left open.
C29_OneMixerOneConversation ==
    LET unfinished == {t \in DOMAIN mixer_tasks : mixer_tasks[t].state # "done"}
        open == {c \in DOMAIN conversations : conversations[c] # "ended"}
    IN  /\ handler = "eleven" => Cardinality(unfinished) <= 1 /\ Cardinality(open) <= 1
        /\ (handler = "eleven" /\ pc = "done") => unfinished = {} /\ open = {}

\* C30: the utterance-start timestamp is written by a relayed audio chunk only
\* while it is unset: a later chunk of the assistant item whose first chunk
\* wrote it (whatever value that was, 0 included) leaves it as it is.
C30_UtteranceStartWrittenOnce ==
    [][(/\ otask.pc = "d_sent" /\ otask.item = last_assistant_item
        /\ response_start_timestamp_twilio # Nil) =>
          response_start_timestamp_twilio' = response_start_timestamp_twilio
      ]_vars

\* C31: a speech-started signal handled while the outstanding-marker list is
\* empty or no utterance-start timestamp is recorded writes nothing to the
\* backend or to telephony and leaves the marker list, the last assistant
\* item and the utterance-start timestamp as they are.
C31_SpeechStartedIgnoredWhenIdle ==
    [][(/\ OpenAIMessage(SpeechStartedMsg)
        /\ (mark_queue = <<>> \/ response_start_timestamp_twilio = Nil)) =>
          UNCHANGED <<openai_out, twilio_out, mark_queue, last_assistant_item,
                      response_start_timestamp_twilio, otask>>
      ]_vars

\* C31 witness: the backend-read task is ready for the signal while agent
\* audio has been relayed and its utterance start recorded, and telephony has
\* answered every mark, so the marker list is empty
C31_Witness ==
    /\ otask.pc = "recv" /\ openai_ws = "open"
    /\ mark_queue = <<>> /\ response_start_timestamp_twilio # Nil
    /\ last_assistant_item # None
    /\ ENABLED OpenAIMessage(SpeechStartedMsg)

\* C32: the frame a mixer iteration builds for the telephony sender has
\* exactly chunk_size bytes, each a byte, whether it is silence, the attenuated
\* bed from any cursor position, or a mix with an agent chunk of any length.
C32_FrameHasChunkSize ==
    iteration # Nil =>
        /\ Len(iteration[1].mixed_audio) = chunk_size
        /\ \A i \in 1..chunk_size : iteration[1].mixed_audio[i] \in 0..255

\* C32 witness: an iteration read the bed and polled an agent chunk shorter
\* than a frame
C32_Witness ==
    /\ iteration # Nil /\ background_noise # Nil
    /\ iteration[1].ai_chunk # Nil
    /\ Len(iteration[1].ai_chunk[1]) \notin {0, chunk_size}

\* C33: from every cursor position the code can leave behind, a call of
\* _get_background_chunk(n) on a bed B of length L ends and returns n bytes,
\* the i-th of them (counting from 0) being B[(p + i) mod L], for every n > 0,
\* n > L included.
C33_ChunkReadsTheBedCyclically ==
    LET B == background_noise[1]
        L == Len(B)
    IN  \A n \in 1..MaxChunk :
            get_background_chunk(B, background_pos, n)[1] =
                [i \in 1..n |-> B[((background_pos + i - 1) % L) + 1]]

\* C33 witness: calls have moved the cursor into the bed, and a chunk longer
\* than the bed can be asked for
C33_Witness ==
    /\ bytes_read > Len(background_noise[1])
    /\ background_pos > 0
    /\ MaxChunk > Len(background_noise[1])

\* C34: an iteration that polls an agent chunk whose length differs from the
\* background chunk's builds the background chunk unchanged as its frame; the
\* agent chunk has left the queue, the rest of the queue is as it was, and no
\* message written to telephony in that step carries the agent chunk.
C34_UnmixableChunkIsDropped ==
    [][\A t \in DOMAIN mixer_tasks :
          (/\ Iterates(t)
           /\ ai_audio_queue # <<>>
           /\ Len(Head(ai_audio_queue)) # chunk_size) =>
              /\ iteration'[1].mixed_audio = iteration'[1].bg_chunk
              /\ ai_audio_queue' = Tail(ai_audio_queue)
              /\ \A i \in DOMAIN twilio_out' :
                    i > Len(twilio_out) =>
                        twilio_out'[i].payload # Some(b64encode(Head(ai_audio_queue)))
      ]_vars

\* C34 witness: an iteration has polled the two-byte agent chunk, its frame is
\* the background chunk, and another chunk is still queued
C34_Witness ==
    /\ iteration # Nil
    /\ iteration[1].ai_chunk = Some(<<0, 255>>)
    /\ iteration[1].mixed_audio = iteration[1].bg_chunk
    /\ ai_audio_queue # <<>>

\* C35: once the handler's teardown has called stop(), nothing more is written
\* to telephony and no inbound audio is forwarded, whatever coroutines of
\* output() and interrupt() run afterwards; the step that calls stop() leaves
\* the background cursor and ai_audio_queue as they are.
C35_NothingSentAfterStop ==
    [][/\ (pc = "done" /\ conversation # 0) =>
             (twilio_out' = twilio_out /\ forwarded' = forwarded)
       /\ (pc = "await_bg" /\ pc' = "done") =>
             (background_pos' = background_pos /\ ai_audio_queue' = ai_audio_queue)
      ]_vars

\* C35 witness: stop() has run while telephony is still connected, and a send
\* that output() or interrupt() handed to the loop has not run yet
C35_Witness ==
    /\ pc = "done" /\ conversation # 0
    /\ stream_sid = None /\ input_callback = None
    /\ client_connected
    /\ scheduled # <<>>

C37_SilenceTriggersPlaybackOnce ==
    /\ [](media_stream.playbacks <= 1)
    /\ [][/\ media_stream'.messages = media_stream.messages + 1 =>
               /\ media_stream'.silence_count =
                     (IF media_stream'.last_silent
                        THEN media_stream.silence_count + 1 ELSE 0)
               /\ (media_stream'.playbacks = media_stream.playbacks + 1)
                     <=> (/\ media_stream'.received_audio
                          /\ media_stream'.silence_count >= SILENCE_CHUNKS_REQUIRED)
               /\ media_stream'.playbacks = media_stream.playbacks + 1
                     => ~media_stream'.connected
          /\ ~media_stream.connected =>
               [media_stream' EXCEPT !.task = "none"] =
                   [media_stream EXCEPT !.task = "none"]
         ]_vars

\* C37 witness: after a silent chunk and one that was not, 100 silent chunks
\* have triggered the playback and the stream is closed
C37_Witness ==
    /\ media_stream.playbacks = 1
    /\ media_stream.messages = SILENCE_CHUNKS_REQUIRED + 2
    /\ media_stream.silence_count = SILENCE_CHUNKS_REQUIRED
    /\ ~media_stream.connected /\ pc = "loop"

\* C38: whatever messages are processed and however the endpoint ends,
\* websocket.close() is called at most once, the stream is not connected once
\* it has been called (also when the call raised), and the endpoint never
\* returns with the stream still connected.
C38_SocketClosedAtMostOnce ==
    /\ media_stream.closes <= 1
    /\ media_stream.closes = 1 => ~media_stream.connected
    /\ pc = "done" => (~media_stream.connected /\ media_stream.closes = 1)

\* C38 witness: the silence closed the stream, that call of websocket.close()
\* raised, and the endpoint has then ended through an except clause, whose
\* close() found the stream closed
C38_Witness ==
    /\ pc = "done"
    /\ media_stream.playbacks = 1
    /\ media_stream.silence_count = SILENCE_CHUNKS_REQUIRED
    /\ media_stream.closes = 1 /\ media_stream.close_error
    /\ ~media_stream.connected

=============================================================================
